---- MODULE Spec2Model ----
(***************************************************************************)
(* A model of the robots.txt matcher of nzrsky/robotstxt                    *)
(* (src/singleheader/demo.cpp): the pattern matcher, the URL path           *)
(* extraction, the value parsers run by the line parser, and the            *)
(* group-aware RobotsMatcher that consumes the parser's directive events.   *)
(*                                                                         *)
(* Strings are sequences of bytes (0..255).  Offsets into a string are     *)
(* 0-based as in the C++ code; At(s, i) reads s[i].                         *)
(***************************************************************************)
EXTENDS Integers, Sequences, FiniteSets, TLC

\* ------------------------------------------------------------------------
\* Bounds of the model
\* ------------------------------------------------------------------------

\* The longest robots.txt body (in lines) a query is run on.
MaxLines == 4

\* ------------------------------------------------------------------------
\* String helpers (demo.cpp, anonymous namespace, lines 683-740)
\* ------------------------------------------------------------------------

At(s, i) == s[i + 1]

\* std::string_view::substr(pos, count): count is clamped to the size.
Substr(s, pos, count) ==
  LET n == IF pos + count > Len(s) THEN Len(s) - pos ELSE count
  IN  [k \in 1..n |-> s[pos + k]]

SubstrFrom(s, pos) == Substr(s, pos, Len(s) - pos)

Max(a, b) == IF a > b THEN a ELSE b

AsciiIsAlpha(c) == (c >= 97 /\ c <= 122) \/ (c >= 65 /\ c <= 90)

AsciiIsXDigit(c) ==
  (c >= 48 /\ c <= 57) \/ (c >= 97 /\ c <= 102) \/ (c >= 65 /\ c <= 70)

AsciiIsLower(c) == c >= 97 /\ c <= 122

AsciiToUpper(c) == IF c >= 97 /\ c <= 122 THEN c - 97 + 65 ELSE c

AsciiToLower(c) == IF c >= 65 /\ c <= 90 THEN c - 65 + 97 ELSE c

\* ' ', \t, \n, \r, \f, \v
AsciiIsSpace(c) == c \in {32, 9, 10, 13, 12, 11}

StartsWith(s, prefix) ==
  Len(s) >= Len(prefix) /\ Substr(s, 0, Len(prefix)) = prefix

EqualsIgnoreCase(a, b) ==
  /\ Len(a) = Len(b)
  /\ \A i \in 1..Len(a) : AsciiToLower(a[i]) = AsciiToLower(b[i])

\* std::string_view::find(c, from): the first offset >= from holding c, or
\* Npos.
Npos == -1

Find(s, c, from) ==
  LET hits == {i \in from..(Len(s) - 1) : At(s, i) = c}
  IN  IF hits = {} THEN Npos
      ELSE CHOOSE i \in hits : \A j \in hits : i <= j

\* std::string_view::find_last_of(c)
FindLastOf(s, c) ==
  LET hits == {i \in 0..(Len(s) - 1) : At(s, i) = c}
  IN  IF hits = {} THEN Npos
      ELSE CHOOSE i \in hits : \A j \in hits : i >= j

\* ------------------------------------------------------------------------
\* Pattern matching (demo.cpp lines 774-858)
\* ------------------------------------------------------------------------

HexDigitValue(c) ==
  IF c >= 48 /\ c <= 57 THEN c - 48
  ELSE IF c >= 65 /\ c <= 70 THEN c - 65 + 10
  ELSE IF c >= 97 /\ c <= 102 THEN c - 97 + 10
  ELSE -1

\* DecodePercentOrChar without the decoding of %XX.
DecodePercentOrChar_raw(s, pos) == [char |-> At(s, pos), advance |-> 1]

\* Returns the decoded byte and the advance (3 for a valid %XX, else 1).
DecodePercentOrChar(s, pos) ==
  IF /\ pos + 2 < Len(s)
     /\ At(s, pos) = 37
     /\ HexDigitValue(At(s, pos + 1)) >= 0
     /\ HexDigitValue(At(s, pos + 2)) >= 0
  THEN [char    |-> HexDigitValue(At(s, pos + 1)) * 16
                    + HexDigitValue(At(s, pos + 2)),
        advance |-> 3]
  ELSE [char |-> At(s, pos), advance |-> 1]

\* The '*' branch with one position more than the path has.
StarStep_overrun(path, pos) ==
  LET numpos == Len(path) - pos[1] + 2
  IN  [i \in 1..numpos |-> pos[1] + i - 1]

\* The '*' branch of the matching loop: pos[] becomes pos[0], pos[0]+1, ...,
\* pathlen.
StarStep(path, pos) ==
  LET numpos == Len(path) - pos[1] + 1
  IN  [i \in 1..numpos |-> pos[1] + i - 1]

\* The literal branch of the matching loop: the inner for loop over pos[0..
\* numpos), from index i on, appending to the entries kept so far.
RECURSIVE LiteralStep(_, _, _, _, _)
LiteralStep(path, pos, i, decoded_pat, kept) ==
  IF i > Len(pos) THEN kept
  ELSE IF pos[i] < Len(path)
          /\ DecodePercentOrChar(path, pos[i]).char = decoded_pat
       THEN LiteralStep(path, pos, i + 1, decoded_pat,
              Append(kept, pos[i] + DecodePercentOrChar(path, pos[i]).advance))
       ELSE LiteralStep(path, pos, i + 1, decoded_pat, kept)

\* The main loop of Matches from pattern offset pat_idx with the candidate
\* positions pos.
RECURSIVE MatchesFrom(_, _, _, _)
MatchesFrom(path, pattern, pat_idx, pos) ==
  IF pat_idx >= Len(pattern) THEN TRUE
  ELSE LET pat_char == At(pattern, pat_idx)
       IN  IF pat_char = 36 /\ pat_idx + 1 = Len(pattern)
           THEN pos[Len(pos)] = Len(path)
           ELSE IF pat_char = 42
           THEN MatchesFrom(path, pattern, pat_idx + 1, StarStep(path, pos))
           ELSE LET d      == DecodePercentOrChar(pattern, pat_idx)
                    newpos == LiteralStep(path, pos, 1, d.char, <<>>)
                IN  IF Len(newpos) = 0 THEN FALSE
                    ELSE MatchesFrom(path, pattern, pat_idx + d.advance, newpos)

Matches(path, pattern) == MatchesFrom(path, pattern, 0, <<0>>)

\* The values of pat_idx and pos[0..numpos) at the start of every iteration
\* of the main loop of Matches, followed by their values when the loop ends
\* (an iteration that returns leaves no value after it).
RECURSIVE MatchesTrace(_, _, _, _)
MatchesTrace(path, pattern, pat_idx, pos) ==
  LET here == <<[pat_idx |-> pat_idx, pos |-> pos]>>
  IN  IF pat_idx >= Len(pattern) THEN here
      ELSE LET pat_char == At(pattern, pat_idx)
           IN  IF pat_char = 36 /\ pat_idx + 1 = Len(pattern) THEN here
               ELSE IF pat_char = 42
               THEN here \o MatchesTrace(path, pattern, pat_idx + 1,
                                         StarStep(path, pos))
               ELSE LET d      == DecodePercentOrChar(pattern, pat_idx)
                        newpos == LiteralStep(path, pos, 1, d.char, <<>>)
                    IN  IF Len(newpos) = 0 THEN here
                        ELSE here \o MatchesTrace(path, pattern,
                                                  pat_idx + d.advance, newpos)

\* The indexes of s that DecodePercentOrChar(s, pos) reads.
DecodeReads(s, pos) ==
  {pos} \cup (IF pos + 2 < Len(s) /\ At(s, pos) = 37
              THEN {pos + 1, pos + 2} ELSE {})

\* LongestMatchRobotsMatchStrategy
MatchAllow(path, pattern) == IF Matches(path, pattern) THEN Len(pattern) ELSE -1

MatchDisallow(path, pattern) ==
  IF Matches(path, pattern) THEN Len(pattern) ELSE -1

\* ------------------------------------------------------------------------
\* URL path extraction (demo.cpp lines 860-978, the build without ada-url)
\* ------------------------------------------------------------------------

\* kHexDigits[n]
HexDigitChar(n) == IF n < 10 THEN 48 + n ELSE 65 + n - 10

\* '*' becomes %2A and '$' becomes %24; every other byte is kept.
RECURSIVE EncodePathForMatching(_)
EncodePathForMatching(path) ==
  IF path = <<>> THEN <<>>
  ELSE LET c == Head(path)
           e == IF c = 42 THEN <<37, 50, 65>>
                ELSE IF c = 36 THEN <<37, 50, 52>>
                ELSE <<c>>
       IN  e \o EncodePathForMatching(Tail(path))

\* std::string_view::find(needle): the first offset where needle occurs.
FindStr(s, needle) ==
  LET hits == {i \in 0..(Len(s) - Len(needle)) :
                 Substr(s, i, Len(needle)) = needle}
  IN  IF hits = {} THEN Npos
      ELSE CHOOSE i \in hits : \A j \in hits : i <= j

StripFragment(s) ==
  IF Find(s, 35, 0) # Npos THEN Substr(s, 0, Find(s, 35, 0)) ELSE s

GetPathParamsQuery(url) ==
  IF url = <<>> THEN <<47>>
  ELSE
    LET scheme_end == FindStr(url, <<58, 47, 47>>)
        s == IF scheme_end # Npos THEN SubstrFrom(url, scheme_end + 3)
             ELSE IF Len(url) >= 2 /\ At(url, 0) = 47 /\ At(url, 1) = 47
                  THEN SubstrFrom(url, 2)
                  ELSE url
    IN  IF s # <<>> /\ At(s, 0) # 47 /\ At(s, 0) # 63
        THEN \* Skip the authority: the path starts at '/' or '?'.
             LET slash_pos == Find(s, 47, 0)
                 query_pos == Find(s, 63, 0)
             IN  IF slash_pos = Npos /\ query_pos = Npos THEN <<47>>
                 ELSE IF slash_pos = Npos
                 THEN EncodePathForMatching(
                        <<47>> \o StripFragment(SubstrFrom(s, query_pos)))
                 ELSE LET t == StripFragment(SubstrFrom(s, slash_pos))
                      IN  IF t = <<>> THEN <<47>>
                          ELSE EncodePathForMatching(t)
        ELSE LET t == StripFragment(s)
             IN  IF t = <<>> THEN <<47>> ELSE EncodePathForMatching(t)

\* ------------------------------------------------------------------------
\* Value normalisation and value parsers of the line parser
\* (demo.cpp lines 1038-1081 and 1152-1263)
\* ------------------------------------------------------------------------

\* MaybeEscapePattern(std::string_view), from offset i on.  The result is
\* the string the handler receives: the rebuilt one, or the original when
\* the function returns nullopt (the rebuild then equals the original).
RECURSIVE EscapeFrom(_, _)
EscapeFrom(src, i) ==
  IF i >= Len(src) THEN <<>>
  ELSE IF /\ At(src, i) = 37
          /\ i + 2 < Len(src)
          /\ AsciiIsXDigit(At(src, i + 1))
          /\ AsciiIsXDigit(At(src, i + 2))
       THEN <<37, AsciiToUpper(At(src, i + 1)), AsciiToUpper(At(src, i + 2))>>
            \o EscapeFrom(src, i + 3)
       ELSE IF At(src, i) >= 128
       THEN <<37, HexDigitChar(At(src, i) \div 16),
                  HexDigitChar(At(src, i) % 16)>>
            \o EscapeFrom(src, i + 1)
       ELSE <<At(src, i)>> \o EscapeFrom(src, i + 1)

MaybeEscapePattern(src) == EscapeFrom(src, 0)

StripAsciiWhitespace(s) ==
  LET nonsp == {i \in 0..(Len(s) - 1) : ~AsciiIsSpace(At(s, i))}
  IN  IF nonsp = {} THEN <<>>
      ELSE LET start == CHOOSE i \in nonsp : \A j \in nonsp : i <= j
               end   == CHOOSE i \in nonsp : \A j \in nonsp : i >= j
           IN  Substr(s, start, end - start + 1)

\* std::optional: the empty sequence is nullopt, <<v>> holds v.
Nullopt == <<>>
Some(v) == <<v>>
HasValue(o) == o # <<>>

\* The offset of the first byte at or after i that is not a decimal digit.
RECURSIVE DigitsEnd(_, _)
DigitsEnd(s, i) ==
  IF i < Len(s) /\ At(s, i) >= 48 /\ At(s, i) <= 57
  THEN DigitsEnd(s, i + 1) ELSE i

\* The value of the decimal digits s[from..to).
RECURSIVE DigitsValue(_, _, _)
DigitsValue(s, from, to) ==
  IF to <= from THEN 0
  ELSE DigitsValue(s, from, to - 1) * 10 + (At(s, to - 1) - 48)

RECURSIVE SkipSpace(_, _)
SkipSpace(s, i) ==
  IF i < Len(s) /\ AsciiIsSpace(At(s, i)) THEN SkipSpace(s, i + 1) ELSE i

\* strtol(s + from, &endptr, 10) reads leading white space, an optional
\* sign and decimal digits.  The model checker's integers are narrower than
\* a C long, so the number read is kept as its digits: `neg` its sign, the
\* digits s[first..end), `end` the offset endptr points to (`from` when
\* there are no digits).
Strtol(s, from) ==
  LET a    == SkipSpace(s, from)
      sign == IF a < Len(s) /\ At(s, a) \in {43, 45} THEN 1 ELSE 0
      b    == a + sign
      e    == DigitsEnd(s, b)
  IN  IF e = b THEN [neg |-> FALSE, first |-> from, end |-> from]
      ELSE [neg |-> sign = 1 /\ At(s, a) = 45, first |-> b, end |-> e]

\* The offset of the first digit of s[i..e) that is not '0', or e.
RECURSIVE SkipZeros(_, _, _)
SkipZeros(s, i, e) ==
  IF i < e /\ At(s, i) = 48 THEN SkipZeros(s, i + 1, e) ELSE i

\* The long strtol returned is > 0.
StrtolPositive(s, r) == ~r.neg /\ SkipZeros(s, r.first, r.end) < r.end

\* LONG_MAX of a 64-bit long, in decimal: 9223372036854775807.
LongMaxDigits ==
  <<57, 50, 50, 51, 51, 55, 50, 48, 51, 54, 56, 53, 52, 55, 55, 53, 56, 48, 55>>

\* The digits d (no leading zero) denote a number above LONG_MAX, which
\* strtol returns as LONG_MAX.
AboveLongMax(d) ==
  \/ Len(d) > Len(LongMaxDigits)
  \/ /\ Len(d) = Len(LongMaxDigits)
     /\ \E i \in 1..Len(d) :
          /\ d[i] > LongMaxDigits[i]
          /\ \A j \in 1..(i - 1) : d[j] = LongMaxDigits[j]

\* The low 32 bits of the number the digits d denote, as two 16-bit halves.
RECURSIVE Low32(_, _)
Low32(d, n) ==
  IF n = 0 THEN [hi |-> 0, lo |-> 0]
  ELSE LET p  == Low32(d, n - 1)
           lo == p.lo * 10 + (d[n] - 48)
       IN  [hi |-> (p.hi * 10 + lo \div 65536) % 65536,
            lo |-> lo % 65536]

\* static_cast<int>(v) of a positive long v read by strtol (32-bit int,
\* two's complement).
ToInt(s, r) ==
  LET z == SkipZeros(s, r.first, r.end)
      d == Substr(s, z, r.end - z)
      w == IF AboveLongMax(d) THEN [hi |-> 65535, lo |-> 65535]
           ELSE Low32(d, Len(d))
  IN  IF w.hi >= 32768 THEN (w.hi - 65536) * 65536 + w.lo
      ELSE w.hi * 65536 + w.lo

\* The RequestRate the REQUEST_RATE case hands to the handler.
ParseRequestRate(value) ==
  LET dflt == [requests |-> 1, seconds |-> 1]
  IN  IF value = <<>> THEN dflt
      ELSE LET r == Strtol(value, 0)
           IN  IF r.end # 0 /\ StrtolPositive(value, r)
               THEN IF r.end < Len(value) /\ At(value, r.end) = 47
                    THEN LET t == Strtol(value, r.end + 1)
                         IN  IF t.end # r.end + 1 /\ StrtolPositive(value, t)
                             THEN [requests |-> ToInt(value, r),
                                   seconds  |-> ToInt(value, t)]
                             ELSE [requests |-> ToInt(value, r), seconds |-> 1]
                    ELSE [requests |-> ToInt(value, r), seconds |-> 1]
               ELSE dflt

\* The double the CRAWL_DELAY case hands to the handler, in thousandths of a
\* second.  strtod is modelled for values of the form
\* [space][sign]digits[.digits] with at most three fraction digits; an
\* unparsable or negative value gives 0.
ParseCrawlDelay(value) ==
  IF value = <<>> THEN 0
  ELSE LET a    == SkipSpace(value, 0)
           sign == IF a < Len(value) /\ At(value, a) \in {43, 45} THEN 1 ELSE 0
           neg  == sign = 1 /\ At(value, a) = 45
           b    == a + sign
           e    == DigitsEnd(value, b)
           dot  == e < Len(value) /\ At(value, e) = 46
           f    == IF dot THEN DigitsEnd(value, e + 1) ELSE e
           fd   == IF dot THEN f - (e + 1) ELSE 0
           frac == IF fd = 0 THEN 0
                   ELSE IF fd = 1 THEN DigitsValue(value, e + 1, f) * 100
                   ELSE IF fd = 2 THEN DigitsValue(value, e + 1, f) * 10
                   ELSE DigitsValue(value, e + 1, e + 4)
           mag  == DigitsValue(value, b, e) * 1000 + frac
       IN  IF e = b /\ fd = 0 THEN 0
           ELSE IF neg /\ mag > 0 THEN 0
           ELSE mag

\* The words of a Content-Signal value.
W_yes == <<121, 101, 115>>
W_true == <<116, 114, 117, 101>>
W_no == <<110, 111>>
W_false == <<102, 97, 108, 115, 101>>
W_ai_train == <<97, 105, 45, 116, 114, 97, 105, 110>>
W_ai_input == <<97, 105, 45, 105, 110, 112, 117, 116>>
W_search == <<115, 101, 97, 114, 99, 104>>

\* Skip spaces, tabs and commas.
RECURSIVE SkipSeparators(_, _)
SkipSeparators(s, i) ==
  IF i < Len(s) /\ At(s, i) \in {32, 9, 44}
  THEN SkipSeparators(s, i + 1) ELSE i

\* The while loop of the CONTENT_SIGNAL case from offset pos0 on.
RECURSIVE ParseContentSignalFrom(_, _, _)
ParseContentSignalFrom(value, pos0, signal) ==
  IF pos0 >= Len(value) THEN signal
  ELSE
    LET pos == SkipSeparators(value, pos0)
    IN  IF pos >= Len(value) THEN signal
        ELSE
          LET eq_pos == Find(value, 61, pos)
          IN  IF eq_pos = Npos THEN signal
              ELSE
                LET key_part  == StripAsciiWhitespace(
                                   Substr(value, pos, eq_pos - pos))
                    val_start == eq_pos + 1
                    comma     == Find(value, 44, val_start)
                    val_end   == IF comma = Npos THEN Len(value) ELSE comma
                    val_part  == StripAsciiWhitespace(
                                   Substr(value, val_start, val_end - val_start))
                    bool_val  ==
                      IF \/ EqualsIgnoreCase(val_part, W_yes)
                         \/ EqualsIgnoreCase(val_part, W_true)
                         \/ val_part = <<49>>
                      THEN Some(TRUE)
                      ELSE IF \/ EqualsIgnoreCase(val_part, W_no)
                              \/ EqualsIgnoreCase(val_part, W_false)
                              \/ val_part = <<48>>
                      THEN Some(FALSE)
                      ELSE Nullopt
                    next ==
                      IF ~HasValue(bool_val) THEN signal
                      ELSE IF EqualsIgnoreCase(key_part, W_ai_train)
                      THEN [signal EXCEPT !.ai_train = bool_val]
                      ELSE IF EqualsIgnoreCase(key_part, W_ai_input)
                      THEN [signal EXCEPT !.ai_input = bool_val]
                      ELSE IF EqualsIgnoreCase(key_part, W_search)
                      THEN [signal EXCEPT !.search = bool_val]
                      ELSE signal
                IN  ParseContentSignalFrom(value, val_end, next)

ParseContentSignal(value) ==
  ParseContentSignalFrom(value, 0,
    [ai_train |-> Nullopt, ai_input |-> Nullopt, search |-> Nullopt])

\* ------------------------------------------------------------------------
\* RobotsMatcher (demo.cpp lines 292-487 and 1483-1776)
\* ------------------------------------------------------------------------

\* RobotsMatcher::Match
kNoMatchPriority == -1

Match(priority, line) == [priority |-> priority, line |-> line]

NoMatch == Match(kNoMatchPriority, 0)

\* HigherPriorityMatch keeping its first argument on equal priorities.
HigherPriorityMatch_ties_first(a, b) ==
  IF a.priority >= b.priority THEN a ELSE b

HigherPriorityMatch(a, b) == IF a.priority > b.priority THEN a ELSE b

\* MatchHierarchy::Clear
ClearedHierarchy == [global |-> NoMatch, specific |-> NoMatch]

\* The matcher as its constructor leaves it (path_ and user_agents_ are null
\* until the first query sets them).
NewMatcher ==
  [allow_                      |-> ClearedHierarchy,
   disallow_                   |-> ClearedHierarchy,
   seen_global_agent_          |-> FALSE,
   seen_specific_agent_        |-> FALSE,
   ever_seen_specific_agent_   |-> FALSE,
   seen_separator_             |-> FALSE,
   best_specific_agent_length_ |-> 0,
   path_                       |-> <<>>,
   user_agents_                |-> <<>>,
   crawl_delay_global_         |-> Nullopt,
   crawl_delay_specific_       |-> Nullopt,
   request_rate_global_        |-> Nullopt,
   request_rate_specific_      |-> Nullopt,
   content_signal_global_      |-> Nullopt,
   content_signal_specific_    |-> Nullopt]

\* ROBOTS_ASSERT('/' == *path_): a build with assertions aborts the process
\* when it is false, a build with NDEBUG goes on.
PathAssertion(path) == path # <<>> /\ At(path, 0) = 47

InitUserAgentsAndPath(m, user_agents, path) ==
  [m EXCEPT !.path_ = path,
            !.user_agents_ = user_agents,
            !.best_specific_agent_length_ = 0]

\* HandleRobotsStart without the reset of ever_seen_specific_agent_.
HandleRobotsStart_keeps_ever_seen(m) ==
  [m EXCEPT !.allow_ = ClearedHierarchy,
            !.disallow_ = ClearedHierarchy,
            !.seen_global_agent_ = FALSE,
            !.seen_specific_agent_ = FALSE,
            !.seen_separator_ = FALSE,
            !.crawl_delay_global_ = Nullopt,
            !.crawl_delay_specific_ = Nullopt,
            !.request_rate_global_ = Nullopt,
            !.request_rate_specific_ = Nullopt,
            !.content_signal_global_ = Nullopt,
            !.content_signal_specific_ = Nullopt]

HandleRobotsStart(m) ==
  [m EXCEPT !.allow_ = ClearedHierarchy,
            !.disallow_ = ClearedHierarchy,
            !.seen_global_agent_ = FALSE,
            !.seen_specific_agent_ = FALSE,
            !.ever_seen_specific_agent_ = FALSE,
            !.seen_separator_ = FALSE,
            !.crawl_delay_global_ = Nullopt,
            !.crawl_delay_specific_ = Nullopt,
            !.request_rate_global_ = Nullopt,
            !.request_rate_specific_ = Nullopt,
            !.content_signal_global_ = Nullopt,
            !.content_signal_specific_ = Nullopt]

seen_any_agent(m) == m.seen_global_agent_ \/ m.seen_specific_agent_

\* The length of the leading run of [a-zA-Z_-] bytes.  The loop of the code
\* tests *end without comparing against the view's size; substr() clamps
\* the result to the view, so the bytes that follow the view in the buffer
\* cannot change it.
RECURSIVE AgentRunEnd(_, _)
AgentRunEnd(user_agent, end) ==
  IF /\ end < Len(user_agent)
     /\ \/ AsciiIsAlpha(At(user_agent, end))
        \/ At(user_agent, end) = 45
        \/ At(user_agent, end) = 95
  THEN AgentRunEnd(user_agent, end + 1) ELSE end

\* ExtractUserAgent returning the value uncut.
ExtractUserAgent_whole_value(user_agent) == user_agent

ExtractUserAgent(user_agent) ==
  Substr(user_agent, 0, AgentRunEnd(user_agent, 0))

IsValidUserAgentToObey(user_agent) ==
  Len(user_agent) > 0 /\ ExtractUserAgent(user_agent) = user_agent

\* The test of HandleUserAgent for the global agent: '*' alone or followed
\* by white space.
IsGlobalAgentValue(user_agent) ==
  /\ Len(user_agent) >= 1
  /\ At(user_agent, 0) = 42
  /\ (Len(user_agent) = 1 \/ AsciiIsSpace(At(user_agent, 1)))

\* HandleUserAgent admitting every matching agent, whatever its length, and
\* never clearing the specific matches.
AdmitSpecificAgent_combines(m, agent_length) ==
  [m EXCEPT !.best_specific_agent_length_ = Max(@, agent_length),
            !.ever_seen_specific_agent_ = TRUE,
            !.seen_specific_agent_ = TRUE]

\* HandleUserAgent without the branch for an agent of the same length.
AdmitSpecificAgent_first_group_only(m, agent_length) ==
  IF agent_length > m.best_specific_agent_length_
  THEN [m EXCEPT !.best_specific_agent_length_ = agent_length,
                 !.allow_.specific = NoMatch,
                 !.disallow_.specific = NoMatch,
                 !.ever_seen_specific_agent_ = TRUE,
                 !.seen_specific_agent_ = TRUE]
  ELSE m

\* HandleUserAgent keeping the specific matches of the less specific agent.
AdmitSpecificAgent_keeps_matches(m, agent_length) ==
  IF agent_length >= m.best_specific_agent_length_
  THEN [m EXCEPT !.best_specific_agent_length_ = agent_length,
                 !.ever_seen_specific_agent_ = TRUE,
                 !.seen_specific_agent_ = TRUE]
  ELSE m

\* The body of the for loop over *user_agents_ once an agent has compared
\* equal (the loop breaks after it).
AdmitSpecificAgent(m, agent_length) ==
  IF agent_length > m.best_specific_agent_length_
  THEN [m EXCEPT !.best_specific_agent_length_ = agent_length,
                 !.allow_.specific = NoMatch,
                 !.disallow_.specific = NoMatch,
                 !.ever_seen_specific_agent_ = TRUE,
                 !.seen_specific_agent_ = TRUE]
  ELSE IF agent_length = m.best_specific_agent_length_
  THEN [m EXCEPT !.ever_seen_specific_agent_ = TRUE,
                 !.seen_specific_agent_ = TRUE]
  ELSE m

\* The reset at the head of HandleUserAgent, forgetting as well that a
\* specific group was ever seen.
StartGroupIfSeparated_forgets(m) ==
  IF m.seen_separator_
  THEN [m EXCEPT !.seen_specific_agent_ = FALSE,
                 !.seen_global_agent_ = FALSE,
                 !.seen_separator_ = FALSE,
                 !.ever_seen_specific_agent_ = FALSE]
  ELSE m

\* The reset at the head of HandleUserAgent.
StartGroupIfSeparated(m) ==
  IF m.seen_separator_
  THEN [m EXCEPT !.seen_specific_agent_ = FALSE,
                 !.seen_global_agent_ = FALSE,
                 !.seen_separator_ = FALSE]
  ELSE m

HandleUserAgent(m, line_num, user_agent) ==
  LET m1 == StartGroupIfSeparated(m)
  IN  IF IsGlobalAgentValue(user_agent)
      THEN [m1 EXCEPT !.seen_global_agent_ = TRUE]
      ELSE LET name == ExtractUserAgent(user_agent)
           IN  IF \E k \in 1..Len(m1.user_agents_) :
                    EqualsIgnoreCase(name, m1.user_agents_[k])
               THEN AdmitSpecificAgent(m1, Len(name))
               ELSE m1

\* The storing of a match with the last match winning.
UpdateMatch_last_wins(stored, priority, line_num) ==
  Match(priority, line_num)

\* The storing of a match with the later of two equal priorities winning.
UpdateMatch_ties_last(stored, priority, line_num) ==
  IF stored.priority <= priority THEN Match(priority, line_num) ELSE stored

\* The update of a stored match by a match of priority `priority`.
UpdateMatch(stored, priority, line_num) ==
  IF stored.priority < priority THEN Match(priority, line_num) ELSE stored

\* The storing of an Allow match of HandleAllow.
StoreAllow(m, line_num, priority) ==
  IF m.seen_specific_agent_
  THEN [m EXCEPT !.allow_.specific = UpdateMatch(@, priority, line_num)]
  ELSE [m EXCEPT !.allow_.global = UpdateMatch(@, priority, line_num)]

\* HandleAllow without the early return for a line outside every group.
HandleAllow_ungrouped(m, line_num, value) ==
  LET m1        == [m EXCEPT !.seen_separator_ = TRUE]
      priority  == MatchAllow(m.path_, value)
      slash_pos == FindLastOf(value, 47)
      directory == Append(Substr(value, 0, slash_pos + 1), 36)
  IN  IF priority >= 0 THEN StoreAllow(m1, line_num, priority)
      ELSE IF /\ slash_pos # Npos
              /\ StartsWith(SubstrFrom(value, slash_pos),
                            <<47, 105, 110, 100, 101, 120, 46, 104, 116, 109>>)
              /\ MatchAllow(m.path_, directory) >= 0
      THEN StoreAllow(m1, line_num, MatchAllow(m.path_, directory))
      ELSE m1

RECURSIVE HandleAllow(_, _, _)
HandleAllow(m, line_num, value) ==
  IF ~seen_any_agent(m) THEN m
  ELSE
    LET m1       == [m EXCEPT !.seen_separator_ = TRUE]
        priority == MatchAllow(m.path_, value)
    IN  IF priority >= 0
        THEN IF m1.seen_specific_agent_
             THEN [m1 EXCEPT !.allow_.specific =
                               UpdateMatch(@, priority, line_num)]
             ELSE [m1 EXCEPT !.allow_.global =
                               UpdateMatch(@, priority, line_num)]
        ELSE \* 'index.htm' and 'index.html' are normalized to '/'.
             LET slash_pos == FindLastOf(value, 47)
             IN  IF /\ slash_pos # Npos
                    /\ StartsWith(SubstrFrom(value, slash_pos),
                                  <<47, 105, 110, 100, 101, 120, 46, 104, 116,
                                    109>>)
                 THEN HandleAllow(m1, line_num,
                        Append(Substr(value, 0, slash_pos + 1), 36))
                 ELSE m1

\* HandleDisallow without the early return for a line outside every group.
HandleDisallow_ungrouped(m, line_num, value) ==
  LET m1       == [m EXCEPT !.seen_separator_ = TRUE]
      priority == MatchDisallow(m.path_, value)
  IN  IF priority >= 0
      THEN IF m1.seen_specific_agent_
           THEN [m1 EXCEPT !.disallow_.specific =
                             UpdateMatch(@, priority, line_num)]
           ELSE [m1 EXCEPT !.disallow_.global =
                             UpdateMatch(@, priority, line_num)]
      ELSE m1

HandleDisallow(m, line_num, value) ==
  IF ~seen_any_agent(m) THEN m
  ELSE
    LET m1       == [m EXCEPT !.seen_separator_ = TRUE]
        priority == MatchDisallow(m.path_, value)
    IN  IF priority >= 0
        THEN IF m1.seen_specific_agent_
             THEN [m1 EXCEPT !.disallow_.specific =
                               UpdateMatch(@, priority, line_num)]
             ELSE [m1 EXCEPT !.disallow_.global =
                               UpdateMatch(@, priority, line_num)]
        ELSE m1

\* HandleSitemap closing the group the way HandleAllow does.
HandleSitemap_separates(m, line_num, value) ==
  IF ~seen_any_agent(m) THEN m ELSE [m EXCEPT !.seen_separator_ = TRUE]

HandleSitemap(m, line_num, value) == m

HandleUnknownAction(m, line_num, action, value) == m

\* The store of a side-channel value with the last value winning.
StoreFirst_last_wins(stored, value) == Some(value)

\* First value wins within a scope.
StoreFirst(stored, value) == IF HasValue(stored) THEN stored ELSE Some(value)

\* HandleCrawlDelay closing the group the way HandleAllow does.
HandleCrawlDelay_separates(m, line_num, value) ==
  IF ~seen_any_agent(m) THEN m
  ELSE IF m.seen_specific_agent_
  THEN [m EXCEPT !.crawl_delay_specific_ = StoreFirst(@, value),
                 !.seen_separator_ = TRUE]
  ELSE [m EXCEPT !.crawl_delay_global_ = StoreFirst(@, value),
                 !.seen_separator_ = TRUE]

HandleCrawlDelay(m, line_num, value) ==
  IF ~seen_any_agent(m) THEN m
  ELSE IF m.seen_specific_agent_
  THEN [m EXCEPT !.crawl_delay_specific_ = StoreFirst(@, value)]
  ELSE IF m.seen_global_agent_
  THEN [m EXCEPT !.crawl_delay_global_ = StoreFirst(@, value)]
  ELSE m

HandleRequestRate(m, line_num, rate) ==
  IF ~seen_any_agent(m) THEN m
  ELSE IF m.seen_specific_agent_
  THEN [m EXCEPT !.request_rate_specific_ = StoreFirst(@, rate)]
  ELSE IF m.seen_global_agent_
  THEN [m EXCEPT !.request_rate_global_ = StoreFirst(@, rate)]
  ELSE m

HandleContentSignal(m, line_num, signal) ==
  IF ~seen_any_agent(m) THEN m
  ELSE IF m.seen_specific_agent_
  THEN [m EXCEPT !.content_signal_specific_ = StoreFirst(@, signal)]
  ELSE IF m.seen_global_agent_
  THEN [m EXCEPT !.content_signal_global_ = StoreFirst(@, signal)]
  ELSE m

\* disallow() resolving equal priorities to disallowed.
disallow_ties_disallow(m) ==
  IF m.allow_.specific.priority > 0 \/ m.disallow_.specific.priority > 0
  THEN m.disallow_.specific.priority >= m.allow_.specific.priority
  ELSE IF m.ever_seen_specific_agent_ THEN FALSE
  ELSE IF m.disallow_.global.priority > 0 \/ m.allow_.global.priority > 0
  THEN m.disallow_.global.priority >= m.allow_.global.priority
  ELSE FALSE

\* disallow() without the return for a specific group that matched nothing.
disallow_falls_to_global(m) ==
  IF m.allow_.specific.priority > 0 \/ m.disallow_.specific.priority > 0
  THEN m.disallow_.specific.priority > m.allow_.specific.priority
  ELSE IF m.disallow_.global.priority > 0 \/ m.allow_.global.priority > 0
  THEN m.disallow_.global.priority > m.allow_.global.priority
  ELSE FALSE

\* disallow() counting a stored match of priority 0.
disallow_counts_empty(m) ==
  IF m.allow_.specific.priority >= 0 \/ m.disallow_.specific.priority >= 0
  THEN m.disallow_.specific.priority > m.allow_.specific.priority
  ELSE IF m.ever_seen_specific_agent_ THEN FALSE
  ELSE IF m.disallow_.global.priority >= 0 \/ m.allow_.global.priority >= 0
  THEN m.disallow_.global.priority > m.allow_.global.priority
  ELSE FALSE

\* disallow(): the specific scope decides when one of its stored priorities
\* is positive, or when a group named the agent; else the global scope.
disallow(m) ==
  IF m.allow_.specific.priority > 0 \/ m.disallow_.specific.priority > 0
  THEN m.disallow_.specific.priority > m.allow_.specific.priority
  ELSE IF m.ever_seen_specific_agent_ THEN FALSE
  ELSE IF m.disallow_.global.priority > 0 \/ m.allow_.global.priority > 0
  THEN m.disallow_.global.priority > m.allow_.global.priority
  ELSE FALSE

disallow_ignore_global(m) ==
  IF m.allow_.specific.priority > 0 \/ m.disallow_.specific.priority > 0
  THEN m.disallow_.specific.priority > m.allow_.specific.priority
  ELSE FALSE

\* matching_line() reading the `*` scope whatever groups were seen.
matching_line_global(m) ==
  HigherPriorityMatch(m.disallow_.global, m.allow_.global).line

\* matching_line reporting the line of the stored Allow match.
matching_line_of_allow(m) ==
  IF m.ever_seen_specific_agent_
  THEN m.allow_.specific.line ELSE m.allow_.global.line

matching_line(m) ==
  IF m.ever_seen_specific_agent_
  THEN HigherPriorityMatch(m.disallow_.specific, m.allow_.specific).line
  ELSE HigherPriorityMatch(m.disallow_.global, m.allow_.global).line

ever_seen_specific_agent(m) == m.ever_seen_specific_agent_

\* GetCrawlDelay() without the `*` value for an agent with a group of its
\* own.
GetCrawlDelay_own_group_only(m) ==
  IF m.ever_seen_specific_agent_
  THEN m.crawl_delay_specific_ ELSE m.crawl_delay_global_

GetCrawlDelay(m) ==
  IF m.ever_seen_specific_agent_ /\ HasValue(m.crawl_delay_specific_)
  THEN m.crawl_delay_specific_ ELSE m.crawl_delay_global_

GetRequestRate(m) ==
  IF m.ever_seen_specific_agent_ /\ HasValue(m.request_rate_specific_)
  THEN m.request_rate_specific_ ELSE m.request_rate_global_

GetContentSignal(m) ==
  IF m.ever_seen_specific_agent_ /\ HasValue(m.content_signal_specific_)
  THEN m.content_signal_specific_ ELSE m.content_signal_global_

\* ------------------------------------------------------------------------
\* The line parser's emission of one directive (demo.cpp lines 1152-1263,
\* 1292-1300, 1369-1396).  A line is the key type ParsedRobotsKey::Parse
\* found and the value GetKeyAndValueFrom cut out.
\* ------------------------------------------------------------------------

KeyTypes ==
  {"USER_AGENT", "SITEMAP", "ALLOW", "DISALLOW", "CRAWL_DELAY",
   "REQUEST_RATE", "CONTENT_SIGNAL", "UNKNOWN"}

Line(key, value) == [key |-> key, value |-> value]

NeedEscapeValueForKey(key) == key \notin {"USER_AGENT", "SITEMAP"}

EmitKeyValueToHandler(m, line, key, value) ==
  CASE key = "USER_AGENT"     -> HandleUserAgent(m, line, value)
    [] key = "ALLOW"          -> HandleAllow(m, line, value)
    [] key = "DISALLOW"       -> HandleDisallow(m, line, value)
    [] key = "SITEMAP"        -> HandleSitemap(m, line, value)
    [] key = "CRAWL_DELAY"    -> HandleCrawlDelay(m, line, ParseCrawlDelay(value))
    [] key = "REQUEST_RATE"   ->
         HandleRequestRate(m, line, ParseRequestRate(value))
    [] key = "CONTENT_SIGNAL" ->
         HandleContentSignal(m, line, ParseContentSignal(value))
    [] key = "UNKNOWN"        -> HandleUnknownAction(m, line, <<>>, value)

ParseAndEmitLine(m, current_line, ln) ==
  IF NeedEscapeValueForKey(ln.key)
  THEN EmitKeyValueToHandler(m, current_line, ln.key,
                             MaybeEscapePattern(ln.value))
  ELSE EmitKeyValueToHandler(m, current_line, ln.key, ln.value)

\* RobotsTxtParser::Parse over the lines body[from..], as seen by matcher m:
\* the lines are numbered from 1.
RECURSIVE ParseLines(_, _, _)
ParseLines(m, body, from) ==
  IF from > Len(body) THEN m
  ELSE ParseLines(ParseAndEmitLine(m, from, body[from]), body, from + 1)

\* ------------------------------------------------------------------------
\* The parser on the bytes of a body (demo.cpp 1302-1458, 1778-1866), with a
\* handler that records the callbacks it receives.
\* ------------------------------------------------------------------------

StartsWithIgnoreCase(s, prefix) ==
  /\ Len(s) >= Len(prefix)
  /\ \A i \in 1..Len(prefix) : AsciiToLower(s[i]) = AsciiToLower(prefix[i])

\* The first offset of s holding one of `chars`, or Npos.
FindFirstOf(s, chars) ==
  LET hits == {i \in 0..(Len(s) - 1) : At(s, i) \in chars}
  IN  IF hits = {} THEN Npos
      ELSE CHOOSE i \in hits : \A j \in hits : i <= j

\* RobotsParseHandler::LineMetadata, default constructed.
LineMetadata ==
  [is_empty |-> FALSE, has_comment |-> FALSE, is_comment |-> FALSE,
   has_directive |-> FALSE, is_acceptable_typo |-> FALSE,
   is_line_too_long |-> FALSE, is_missing_colon_separator |-> FALSE]

kWhite == {32, 9}

\* The key, the value and the metadata GetKeyAndValueFrom leaves for a line.
GetKeyAndValueFrom(line) ==
  LET comment_pos == Find(line, 35, 0)
      md0      == [LineMetadata EXCEPT !.has_comment = (comment_pos # Npos)]
      stripped == StripAsciiWhitespace(
                    IF comment_pos # Npos THEN Substr(line, 0, comment_pos)
                    ELSE line)
      none(md) == [key |-> <<>>, value |-> <<>>, metadata |-> md]
      colon    == Find(stripped, 58, 0)
      white    == FindFirstOf(stripped, kWhite)
      val      == StripAsciiWhitespace(SubstrFrom(stripped, white))
      cut(sep_pos, md) ==
        LET key == StripAsciiWhitespace(Substr(stripped, 0, sep_pos))
        IN  IF key # <<>>
            THEN [key |-> key,
                  value |-> StripAsciiWhitespace(
                              SubstrFrom(stripped, sep_pos + 1)),
                  metadata |-> [md EXCEPT !.has_directive = TRUE]]
            ELSE none(md)
  IN  IF stripped = <<>>
      THEN IF md0.has_comment THEN none([md0 EXCEPT !.is_comment = TRUE])
           ELSE none([md0 EXCEPT !.is_empty = TRUE])
      ELSE IF colon # Npos THEN cut(colon, md0)
      ELSE IF white = Npos THEN none(md0)
      ELSE IF FindFirstOf(val, kWhite) # Npos THEN none(md0)
      ELSE cut(white, [md0 EXCEPT !.is_missing_colon_separator = TRUE])

K_user_agent == <<117, 115, 101, 114, 45, 97, 103, 101, 110, 116>>  \* "user-agent"
K_useragent == <<117, 115, 101, 114, 97, 103, 101, 110, 116>>  \* "useragent"
K_user_sp_agent == <<117, 115, 101, 114, 32, 97, 103, 101, 110, 116>>  \* "user agent"
K_allow == <<97, 108, 108, 111, 119>>  \* "allow"
K_disallow == <<100, 105, 115, 97, 108, 108, 111, 119>>  \* "disallow"
K_dissallow == <<100, 105, 115, 115, 97, 108, 108, 111, 119>>  \* "dissallow"
K_dissalow == <<100, 105, 115, 115, 97, 108, 111, 119>>  \* "dissalow"
K_disalow == <<100, 105, 115, 97, 108, 111, 119>>  \* "disalow"
K_diasllow == <<100, 105, 97, 115, 108, 108, 111, 119>>  \* "diasllow"
K_disallaw == <<100, 105, 115, 97, 108, 108, 97, 119>>  \* "disallaw"
K_sitemap == <<115, 105, 116, 101, 109, 97, 112>>  \* "sitemap"
K_site_map == <<115, 105, 116, 101, 45, 109, 97, 112>>  \* "site-map"
K_crawl_delay == <<99, 114, 97, 119, 108, 45, 100, 101, 108, 97, 121>>  \* "crawl-delay"
K_crawldelay == <<99, 114, 97, 119, 108, 100, 101, 108, 97, 121>>  \* "crawldelay"
K_crawl_sp_delay == <<99, 114, 97, 119, 108, 32, 100, 101, 108, 97, 121>>  \* "crawl delay"
K_request_rate == <<114, 101, 113, 117, 101, 115, 116, 45, 114, 97, 116, 101>>  \* "request-rate"
K_content_signal == <<99, 111, 110, 116, 101, 110, 116, 45, 115, 105, 103, 110, 97, 108>>  \* "content-signal"
K_contentsignal == <<99, 111, 110, 116, 101, 110, 116, 115, 105, 103, 110, 97, 108>>  \* "contentsignal"
K_content_sp_signal == <<99, 111, 110, 116, 101, 110, 116, 32, 115, 105, 103, 110, 97, 108>>  \* "content signal"

\* ParsedRobotsKey::Parse: the key type, and is_acceptable_typo as the last
\* KeyIs* function called leaves it.
ParsedRobotsKey(key) ==
  LET is(names) == \E n \in names : StartsWithIgnoreCase(key, n)
      found(type, typos) == [type |-> type, is_acceptable_typo |-> is(typos)]
  IN  IF is({K_user_agent, K_useragent, K_user_sp_agent})
      THEN found("USER_AGENT", {K_useragent, K_user_sp_agent})
      ELSE IF is({K_allow}) THEN found("ALLOW", {})
      ELSE IF is({K_disallow, K_dissallow, K_dissalow, K_disalow, K_diasllow,
                  K_disallaw})
      THEN found("DISALLOW", {K_dissallow, K_dissalow, K_disalow, K_diasllow,
                              K_disallaw})
      ELSE IF is({K_sitemap, K_site_map}) THEN found("SITEMAP", {K_site_map})
      ELSE IF is({K_crawl_delay, K_crawldelay, K_crawl_sp_delay})
      THEN found("CRAWL_DELAY", {K_crawldelay, K_crawl_sp_delay})
      ELSE IF is({K_request_rate}) THEN found("REQUEST_RATE", {})
      ELSE IF is({K_content_signal, K_contentsignal, K_content_sp_signal})
      THEN found("CONTENT_SIGNAL", {K_contentsignal, K_content_sp_signal})
      ELSE found("UNKNOWN", {})

\* One callback received by the recording handler.  For a directive, `value`
\* is the text EmitKeyValueToHandler is called with; `metadata` counts for
\* ReportLineMetadata only.
Callback(cb, line, value, metadata) ==
  [cb |-> cb, line |-> line, value |-> value, metadata |-> metadata]

\* The Handle* function EmitKeyValueToHandler calls for a key type.
HandlerOf(type) ==
  CASE type = "USER_AGENT"     -> "HandleUserAgent"
    [] type = "ALLOW"          -> "HandleAllow"
    [] type = "DISALLOW"       -> "HandleDisallow"
    [] type = "SITEMAP"        -> "HandleSitemap"
    [] type = "CRAWL_DELAY"    -> "HandleCrawlDelay"
    [] type = "REQUEST_RATE"   -> "HandleRequestRate"
    [] type = "CONTENT_SIGNAL" -> "HandleContentSignal"
    [] type = "UNKNOWN"        -> "HandleUnknownAction"

DirectiveCallbacks == {HandlerOf(t) : t \in KeyTypes}

\* ParseAndEmitLine without the ReportLineMetadata call for a line that has
\* no directive.
ParseAndEmitLineCallbacks_directives_only(current_line, line, line_too_long) ==
  LET kv  == GetKeyAndValueFrom(line)
      md  == [kv.metadata EXCEPT !.is_line_too_long = line_too_long]
      key == ParsedRobotsKey(kv.key)
  IN  IF ~md.has_directive THEN <<>>
      ELSE <<Callback(HandlerOf(key.type), current_line,
                      IF NeedEscapeValueForKey(key.type)
                      THEN MaybeEscapePattern(kv.value) ELSE kv.value,
                      LineMetadata),
             Callback("ReportLineMetadata", current_line, <<>>,
                      [md EXCEPT !.is_acceptable_typo =
                                   key.is_acceptable_typo])>>

\* RobotsTxtParser::ParseAndEmitLine: the callbacks made for one line.
ParseAndEmitLineCallbacks(current_line, line, line_too_long) ==
  LET kv  == GetKeyAndValueFrom(line)
      md  == [kv.metadata EXCEPT !.is_line_too_long = line_too_long]
      key == ParsedRobotsKey(kv.key)
  IN  IF ~md.has_directive
      THEN <<Callback("ReportLineMetadata", current_line, <<>>, md)>>
      ELSE <<Callback(HandlerOf(key.type), current_line,
                      IF NeedEscapeValueForKey(key.type)
                      THEN MaybeEscapePattern(kv.value) ELSE kv.value,
                      LineMetadata),
             Callback("ReportLineMetadata", current_line, <<>>,
                      [md EXCEPT !.is_acceptable_typo =
                                   key.is_acceptable_typo])>>

kBrowserMaxLineLen == 2083

\* The cap counted as the buffer of the original code, its last byte
\* included.
kMaxLineLen_buffer == kBrowserMaxLineLen * 8

kMaxLineLen == kBrowserMaxLineLen * 8 - 1

utf_bom == <<239, 187, 191>>

\* The number of leading bytes of the body skipped as a (partial) BOM.
BomSkip(body) ==
  LET stops == {k \in 0..3 : k = 3 \/ k >= Len(body)
                                   \/ At(body, k) # utf_bom[k + 1]}
  IN  CHOOSE k \in stops : \A j \in stops : k <= j

\* The offset of the first line-ending character at or after offset i, or
\* Npos.
NextLineEnding(body, i) ==
  LET hits == {j \in i..(Len(body) - 1) : At(body, j) \in {10, 13}}
  IN  IF hits = {} THEN Npos
      ELSE CHOOSE j \in hits : \A k \in hits : j <= k

\* ------------------------------------------------------------------------
\* Inputs of the model.  A behaviour draws its lines, agent lists and URLs
\* from one family of inputs, fixed by its initial state.
\* ------------------------------------------------------------------------

S_empty == <<>>                                  \* ""
S_star == <<42>>                                 \* "*"
S_star_a == <<42, 97>>                           \* "*a"
S_star_sp_a == <<42, 32, 97>>                    \* "* a"
S_a == <<97>>                                    \* "a"
S_A == <<65>>                                    \* "A"
S_ab == <<97, 98>>                               \* "ab"
S_a_sp_b == <<97, 32, 98>>                       \* "a b"
S_a1 == <<97, 49>>                               \* "a1"
S_1a == <<49, 97>>                               \* "1a"
S_a_dash == <<97, 45>>                           \* "a-"
S_slash == <<47>>                                \* "/"
S_slash_x == <<47, 120>>                         \* "/x"
S_slash_pct78 == <<47, 37, 55, 56>>              \* "/%78": "/x" escaped
S_slash_dollar == <<47, 36>>                     \* "/$"
S_slash_star == <<47, 42>>                       \* "/*"
S_index_htm ==                                   \* "/index.htm"
  <<47, 105, 110, 100, 101, 120, 46, 104, 116, 109>>
S_1 == <<49>>                                    \* "1"
S_1_2 == <<49, 47, 50>>                          \* "1/2"
S_search_no == W_search \o <<61>> \o W_no        \* "search=no"
S_search_yes == W_search \o <<61>> \o W_yes      \* "search=yes"
S_b == <<98>>                                    \* "b"
S_2 == <<50>>                                    \* "2"
S_slash_pct2A == <<47, 37, 50, 65>>              \* "/%2A"
S_slash_pct2a == <<47, 37, 50, 97>>              \* "/%2a"
S_slash_pct24 == <<47, 37, 50, 52>>              \* "/%24"
S_slash_pct252A == <<47, 37, 50, 53, 50, 65>>    \* "/%252A"
S_slash_star_8 == <<47, 42, 56>>                 \* "/*8"
S_slash_star_x == <<47, 42, 120>>                \* "/*x"
S_slash_x_dollar == <<47, 120, 36>>              \* "/x$"
S_0_5 == <<48, 47, 53>>                          \* "0/5"
S_3_0 == <<51, 47, 48>>                          \* "3/0"
S_minus_1 == <<45, 49>>                          \* "-1"
S_x == <<120>>                                   \* "x"
S_2pow32 ==                                      \* "4294967296"
  <<52, 50, 57, 52, 57, 54, 55, 50, 57, 54>>
S_2pow31_5 ==                                    \* "2147483648/5"
  <<50, 49, 52, 55, 52, 56, 51, 54, 52, 56, 47, 53>>
S_1_2pow32 ==                                    \* "1/4294967296"
  <<49, 47>> \o S_2pow32
S_q_x == <<63, 120>>                             \* "?x"
S_hash_x == <<35, 120>>                          \* "#x"
S_a_slash_x == <<97, 47, 120>>                   \* "a/x"
S_a_q_x == <<97, 63, 120>>                       \* "a?x"
S_2slash_a_slash_x == <<47, 47, 97, 47, 120>>    \* "//a/x"
S_2slash_q_x == <<47, 47, 63, 120>>              \* "//?x"
S_slash_hash == <<47, 35>>                       \* "/#"
S_slash_x_hash_x == <<47, 120, 35, 120>>         \* "/x#x"
S_slash_x_q_x_hash_x ==                          \* "/x?x#x"
  <<47, 120, 63, 120, 35, 120>>
S_slash_star_dollar == <<47, 42, 36>>            \* "/*$"
S_scheme == <<97, 58, 47, 47>>                   \* "a://"
S_scheme_a_slash_x_q_x_hash_x ==                 \* "a://a/x?x#x"
  S_scheme \o <<97>> \o S_slash_x_q_x_hash_x
S_scheme_q_x == S_scheme \o S_q_x                \* "a://?x"
S_slash_x_q_scheme_a_slash ==                    \* "/x?a://a/"
  <<47, 120, 63>> \o S_scheme \o <<97, 47>>
S_slash_x_hash_scheme_a ==                       \* "/x#a://a"
  <<47, 120, 35>> \o S_scheme \o <<97>>
S_index_html == S_index_htm \o <<108>>            \* "/index.html"
S_index_htmx == S_index_htm \o <<120>>            \* "/index.htmx"
S_slash_3 == <<47, 51>>                          \* "/3"
S_slash_pct33 == <<47, 37, 51, 51>>              \* "/%33": "/3" escaped
S_slash_pct34 == <<47, 37, 51, 52>>              \* "/%34": "/4" escaped
S_slash_star_3 == <<47, 42, 51>>                 \* "/*3"
S_star_3 == <<42, 51>>                           \* "*3"
S_slash_pct3 == <<47, 37, 51>>                   \* "/%3": a cut escape
S_slash_star_3_dollar == <<47, 42, 51, 36>>      \* "/*3$"
S_slash_star_3_star_3 == <<47, 42, 51, 42, 51>>  \* "/*3*3"
S_slash_star_4_star_4 == <<47, 42, 52, 42, 52>>  \* "/*4*4"

Families ==
  {"groups", "longest", "directives", "agents", "encoding", "reuse",
   "sidechannels", "rates", "firstvalue", "lineends", "linecap", "urls",
   "positions", "fallback", "instances"}

Lines(family) ==
  CASE family = "groups" ->
         {Line("USER_AGENT", S_star), Line("USER_AGENT", S_a),
          Line("USER_AGENT", S_ab),
          Line("ALLOW", S_slash), Line("ALLOW", S_slash_x),
          Line("DISALLOW", S_slash), Line("DISALLOW", S_slash_x),
          Line("SITEMAP", S_slash), Line("CRAWL_DELAY", S_1)}
    [] family = "longest" ->
         {Line("USER_AGENT", S_star), Line("USER_AGENT", S_a),
          Line("ALLOW", S_empty), Line("ALLOW", S_slash),
          Line("ALLOW", S_slash_pct78), Line("ALLOW", S_index_htm),
          Line("DISALLOW", S_empty), Line("DISALLOW", S_slash),
          Line("DISALLOW", S_slash_x), Line("DISALLOW", S_slash_dollar),
          Line("DISALLOW", S_slash_star)}
    [] family = "directives" ->
         {Line("USER_AGENT", S_star), Line("USER_AGENT", S_a),
          Line("ALLOW", S_slash_x), Line("DISALLOW", S_slash),
          Line("SITEMAP", S_slash), Line("UNKNOWN", S_slash),
          Line("CRAWL_DELAY", S_1), Line("REQUEST_RATE", S_1_2),
          Line("CONTENT_SIGNAL", S_search_no)}
    [] family = "agents" ->
         {Line("USER_AGENT", S_star), Line("USER_AGENT", S_star_a),
          Line("USER_AGENT", S_star_sp_a), Line("USER_AGENT", S_a),
          Line("USER_AGENT", S_A), Line("USER_AGENT", S_ab),
          Line("USER_AGENT", S_a_sp_b), Line("USER_AGENT", S_a1),
          Line("USER_AGENT", S_1a), Line("USER_AGENT", S_a_dash),
          Line("ALLOW", S_slash_x), Line("DISALLOW", S_slash)}
    [] family = "encoding" ->
         {Line("USER_AGENT", S_star), Line("USER_AGENT", S_a),
          Line("DISALLOW", S_slash_pct2A), Line("DISALLOW", S_slash_pct2a),
          Line("DISALLOW", S_slash_pct24), Line("DISALLOW", S_slash_star_8),
          Line("DISALLOW", S_slash_x_dollar), Line("ALLOW", S_slash_star_x)}
    [] family = "reuse" ->
         {Line("USER_AGENT", S_star), Line("USER_AGENT", S_a),
          Line("DISALLOW", S_slash)}
    [] family = "sidechannels" ->
         {Line("USER_AGENT", S_star), Line("USER_AGENT", S_a),
          Line("USER_AGENT", S_ab), Line("DISALLOW", S_slash),
          Line("CRAWL_DELAY", S_1), Line("CRAWL_DELAY", S_2),
          Line("REQUEST_RATE", S_1_2), Line("REQUEST_RATE", S_2),
          Line("CONTENT_SIGNAL", S_search_no),
          Line("CONTENT_SIGNAL", S_search_yes)}
    [] family = "rates" ->
         {Line("USER_AGENT", S_star), Line("USER_AGENT", S_a),
          Line("REQUEST_RATE", S_1_2), Line("REQUEST_RATE", S_0_5),
          Line("REQUEST_RATE", S_3_0), Line("REQUEST_RATE", S_minus_1),
          Line("REQUEST_RATE", S_x), Line("REQUEST_RATE", S_2pow32),
          Line("REQUEST_RATE", S_2pow31_5), Line("REQUEST_RATE", S_1_2pow32)}
    [] family = "firstvalue" ->
         {Line("USER_AGENT", S_star), Line("USER_AGENT", S_a),
          Line("DISALLOW", S_slash),
          Line("CRAWL_DELAY", S_1), Line("CRAWL_DELAY", S_2),
          Line("REQUEST_RATE", S_1_2), Line("REQUEST_RATE", S_2),
          Line("CONTENT_SIGNAL", S_search_no),
          Line("CONTENT_SIGNAL", S_search_yes)}
    [] family = "urls" ->
         {Line("USER_AGENT", S_star), Line("USER_AGENT", S_a),
          Line("ALLOW", S_slash_x), Line("DISALLOW", S_slash),
          Line("DISALLOW", S_slash_x)}
    [] family = "positions" ->
         {Line("USER_AGENT", S_star),
          Line("ALLOW", S_slash_star_3_dollar), Line("ALLOW", S_slash_pct33),
          Line("DISALLOW", S_slash_star_3), Line("DISALLOW", S_star_3),
          Line("DISALLOW", S_slash_star_3_star_3),
          Line("DISALLOW", S_slash_star_4_star_4)}
    [] family = "fallback" ->
         {Line("USER_AGENT", S_star),
          Line("ALLOW", S_index_htm), Line("ALLOW", S_index_html),
          Line("ALLOW", S_index_htmx), Line("ALLOW", S_slash_x),
          Line("DISALLOW", S_slash), Line("DISALLOW", S_index_htm)}
    [] family = "instances" ->
         {Line("USER_AGENT", S_star), Line("USER_AGENT", S_a),
          Line("ALLOW", S_slash_x), Line("DISALLOW", S_slash),
          Line("CRAWL_DELAY", S_1)}

AgentLists(family) ==
  CASE family = "groups"     -> {<<S_a>>, <<S_a, S_ab>>}
    [] family = "longest"    -> {<<S_a>>}
    [] family = "directives" -> {<<S_a>>}
    [] family = "agents"     -> {<<S_a>>, <<S_A>>, <<S_a_sp_b>>, <<S_empty>>}
    [] family = "encoding"   -> {<<S_a>>}
    [] family = "reuse"      -> {<<S_a>>, <<S_b>>}
    [] family = "sidechannels" -> {<<S_a>>, <<S_a, S_ab>>}
    [] family = "rates"      -> {<<S_a>>}
    [] family = "firstvalue" -> {<<S_a>>}
    [] family = "urls"       -> {<<S_a>>}
    [] family = "positions"  -> {<<S_a>>}
    [] family = "fallback"   -> {<<S_a>>}
    [] family = "instances"  -> {<<S_a>>}

\* The longest body of a family, in lines: one line more where a directive
\* has to come back in a later group of the same agent, fewer for the raw
\* bodies, whose lines are spelled out byte by byte.
LineCap(family) ==
  CASE family = "firstvalue" -> MaxLines + 1
    [] family = "linecap"    -> MaxLines \div 2
    [] family = "instances"  -> MaxLines \div 2
    [] family = "lineends"   -> MaxLines - 1
    [] OTHER                 -> MaxLines

S_allow_slash == <<97, 108, 108, 111, 119, 58, 47>>        \* "allow:/"
S_comment == <<35, 99>>                                    \* "#c"
S_allow_colon == <<97, 108, 108, 111, 119, 58>>            \* "allow:"

LF == <<10>>
CR == <<13>>
CRLF == <<13, 10>>

\* A line "allow:", blanks up to `n` bytes, then `tail`.
LongLine(n, tail) ==
  S_allow_colon \o [k \in 1..(n - Len(S_allow_colon)) |-> 32] \o tail

\* The contents of the lines of a raw body (no line-ending character in
\* them).
Contents(family) ==
  CASE family = "lineends" -> {S_empty, S_allow_slash, S_comment}
    [] family = "linecap" ->
         {S_allow_slash,
          LongLine(kBrowserMaxLineLen * 8 - 2, S_slash),
          LongLine(kBrowserMaxLineLen * 8 - 1, S_slash),
          LongLine(kBrowserMaxLineLen * 8 - 1, S_slash_x)}
    [] OTHER -> {}

\* The line endings of a family.
Endings(family) ==
  IF family = "linecap" THEN {LF, CRLF} ELSE {LF, CR, CRLF}

\* One line of a raw body: its content and the characters that end it (none
\* for a last line without terminator).
Segment(content, ending) == [content |-> content, ending |-> ending]

\* The bodies of n lines, every line terminated.
RECURSIVE TerminatedInputs(_, _)
TerminatedInputs(family, n) ==
  IF n = 0 THEN {<<>>}
  ELSE {Append(b, Segment(c, e)) :
          b \in TerminatedInputs(family, n - 1),
          c \in Contents(family), e \in Endings(family)}

\* The raw bodies of a family: up to LineCap lines, the last one with or
\* without terminator.
Inputs(family) ==
  UNION {TerminatedInputs(family, n) \cup
         (IF n = 0 THEN {}
          ELSE {Append(b, Segment(c, <<>>)) :
                  b \in TerminatedInputs(family, n - 1),
                  c \in Contents(family)}) : n \in 0..LineCap(family)}

\* The bytes of a raw body.
RECURSIVE BodyBytes(_)
BodyBytes(input) ==
  IF input = <<>> THEN <<>>
  ELSE input[1].content \o input[1].ending \o BodyBytes(Tail(input))

Urls(family) ==
  CASE family = "groups"     -> {S_empty, S_slash_x}
    [] family = "longest"    -> {S_slash, S_slash_x}
    [] family = "directives" -> {S_empty, S_slash_x}
    [] family = "agents"     -> {S_slash_x}
    [] family = "encoding"   ->
         {S_slash, S_slash_x, S_slash_pct78, S_slash_star, S_slash_pct2A,
          S_slash_pct2a, S_slash_dollar, S_slash_pct24, S_slash_pct252A}
    [] family = "reuse"      -> {S_slash_x}
    [] family = "sidechannels" -> {S_slash_x}
    [] family = "rates"      -> {S_slash_x}
    [] family = "firstvalue" -> {S_slash_x}
    [] family = "urls"       ->
         {S_empty, S_slash, S_slash_x, S_q_x, S_hash_x, S_a, S_a_slash_x,
          S_a_q_x, S_2slash_a_slash_x, S_2slash_q_x, S_slash_hash,
          S_slash_x_hash_x, S_slash_x_q_x_hash_x, S_slash_star_dollar,
          S_scheme_a_slash_x_q_x_hash_x, S_scheme_q_x,
          S_slash_x_q_scheme_a_slash, S_slash_x_hash_scheme_a}
    [] family = "positions"  ->
         {S_slash_3, S_slash_pct33, S_slash_pct34, S_slash_pct3, S_slash_x}
    [] family = "fallback"   -> {S_slash, S_slash_x, S_index_htm}
    [] family = "instances"  -> {S_slash, S_slash_x}

\* ------------------------------------------------------------------------
\* State and actions
\* ------------------------------------------------------------------------

VARIABLES
  family,       \* the family of inputs of this behaviour
  pc,           \* "idle": no query yet; "parsing": inside AllowedByRobots;
                \* "done": AllowedByRobots has returned; "aborted": the
                \* assertion of InitUserAgentsAndPath has ended the process
  m,            \* the RobotsMatcher instance
  robots_body,  \* the lines of the body parsed so far by the current query
  url,          \* the url argument of the current query
  allowed,      \* the value the last AllowedByRobots returned, if any
  reused,       \* whether the matcher has served an earlier query
  earlier,      \* history, kept in the "reuse" family: the body of the
                \* query served before the current one and what
                \* ever_seen_specific_agent() returned after it
  parser,       \* a RobotsTxtParser run on raw bytes: its body, the locals
                \* of Parse(), and the callbacks its handler has received
  other         \* a second RobotsMatcher instance of the process, with the
                \* pc, robots_body, url and allowed of the query it serves

vars ==
  <<family, pc, m, robots_body, url, allowed, reused, earlier, parser, other>>

matcher_vars_of_first ==
  <<pc, m, robots_body, url, allowed, reused, earlier>>

\* The second instance before its first query.
NoQuery ==
  [pc |-> "idle", m |-> NewMatcher, robots_body |-> <<>>, url |-> <<>>,
   allowed |-> Nullopt]

\* The parser before ParseRobotsTxt is called.
NoParser ==
  [pc |-> "idle", input |-> <<>>, robots_body_ |-> <<>>, i |-> 0,
   line_start |-> 0, line_num |-> 0, last_was_carriage_return |-> FALSE,
   trace |-> <<>>]

InitFamily(f) ==
  /\ family = f
  /\ pc = "idle"
  /\ m = NewMatcher
  /\ robots_body = <<>>
  /\ url = <<>>
  /\ allowed = Nullopt
  /\ reused = FALSE
  /\ earlier = Nullopt
  /\ parser = NoParser
  /\ other = NoQuery

Init == InitFamily("groups")

InitLongest == InitFamily("longest")

InitDirectives == InitFamily("directives")

InitAgents == InitFamily("agents")

InitEncoding == InitFamily("encoding")

InitReuse == InitFamily("reuse")

InitSideChannels == InitFamily("sidechannels")

InitRates == InitFamily("rates")

InitFirstValue == InitFamily("firstvalue")

InitUrls == InitFamily("urls")

InitPositions == InitFamily("positions")

InitFallback == InitFamily("fallback")

\* AllowedByRobots up to and including the parser's HandleRobotsStart.
AllowedByRobots ==
  /\ pc \in {"idle", "done"}
  /\ \E user_agents \in AgentLists(family), u \in Urls(family) :
       LET path == GetPathParamsQuery(u)
           init == InitUserAgentsAndPath(m, user_agents, path)
       IN  /\ url' = u
           /\ pc' \in IF PathAssertion(path) THEN {"parsing"}
                      ELSE {"parsing", "aborted"}
           /\ m' = IF pc' = "aborted" THEN init ELSE HandleRobotsStart(init)
  /\ robots_body' = <<>>
  /\ allowed' = Nullopt
  /\ reused' = (pc = "done")
  /\ earlier' = IF family = "reuse" /\ pc = "done"
                THEN Some([robots_body |-> robots_body,
                           ever_seen_specific_agent |->
                             ever_seen_specific_agent(m)])
                ELSE earlier
  /\ UNCHANGED <<family, parser, other>>

\* The parser reads the next line of the body and emits it.
ParseLine ==
  /\ pc = "parsing"
  /\ Len(robots_body) < LineCap(family)
  /\ \E ln \in Lines(family) :
       /\ m' = ParseAndEmitLine(m, Len(robots_body) + 1, ln)
       /\ robots_body' = Append(robots_body, ln)
  /\ UNCHANGED <<family, pc, url, allowed, reused, earlier, parser, other>>

\* The body ends: HandleRobotsEnd, and AllowedByRobots returns !disallow().
ReturnAllowed ==
  /\ pc = "parsing"
  /\ allowed' = Some(~disallow(m))
  /\ pc' = "done"
  /\ UNCHANGED <<family, m, robots_body, url, reused, earlier, parser, other>>

Next == AllowedByRobots \/ ParseLine \/ ReturnAllowed

Spec == Init /\ [][Next]_vars

SpecLongest == InitLongest /\ [][Next]_vars

SpecDirectives == InitDirectives /\ [][Next]_vars

SpecAgents == InitAgents /\ [][Next]_vars

SpecEncoding == InitEncoding /\ [][Next]_vars

SpecReuse == InitReuse /\ [][Next]_vars

SpecSideChannels == InitSideChannels /\ [][Next]_vars

SpecRates == InitRates /\ [][Next]_vars

SpecFirstValue == InitFirstValue /\ [][Next]_vars

SpecUrls == InitUrls /\ [][Next]_vars

SpecPositions == InitPositions /\ [][Next]_vars

SpecFallback == InitFallback /\ [][Next]_vars

\* ------------------------------------------------------------------------
\* Two RobotsMatcher instances in one process.  Every field of the class
\* (demo.cpp 452-486) is a non-static member and the file has no global
\* that is written, so the second instance is a record of its own; the
\* steps of the two instances interleave line by line.
\* ------------------------------------------------------------------------

InitInstances == InitFamily("instances")

\* OtherParseLine with best_specific_agent_length_ as a static member, one
\* value for both instances.
OtherParseLine_static_length ==
  /\ other.pc = "parsing"
  /\ Len(other.robots_body) < LineCap(family)
  /\ \E ln \in Lines(family) :
       /\ other' = [other EXCEPT
                      !.m = ParseAndEmitLine(
                              [@ EXCEPT !.best_specific_agent_length_ =
                                          m.best_specific_agent_length_],
                              Len(other.robots_body) + 1, ln),
                      !.robots_body = Append(@, ln)]
       /\ m' = [m EXCEPT !.best_specific_agent_length_ =
                           other'.m.best_specific_agent_length_]
  /\ UNCHANGED <<family, pc, robots_body, url, allowed, reused, earlier,
                 parser>>

\* AllowedByRobots on the second instance, up to HandleRobotsStart.
OtherAllowedByRobots ==
  /\ other.pc \in {"idle", "done"}
  /\ \E user_agents \in AgentLists(family), u \in Urls(family) :
       LET path == GetPathParamsQuery(u)
           init == InitUserAgentsAndPath(other.m, user_agents, path)
       IN  \E next \in IF PathAssertion(path) THEN {"parsing"}
                        ELSE {"parsing", "aborted"} :
             other' = [pc |-> next,
                       m |-> IF next = "aborted" THEN init
                             ELSE HandleRobotsStart(init),
                       robots_body |-> <<>>, url |-> u, allowed |-> Nullopt]
  /\ UNCHANGED <<family, matcher_vars_of_first, parser>>

\* The parser of the second instance reads the next line and emits it.
OtherParseLine ==
  /\ other.pc = "parsing"
  /\ Len(other.robots_body) < LineCap(family)
  /\ \E ln \in Lines(family) :
       other' = [other EXCEPT
                   !.m = ParseAndEmitLine(@, Len(other.robots_body) + 1, ln),
                   !.robots_body = Append(@, ln)]
  /\ UNCHANGED <<family, matcher_vars_of_first, parser>>

\* The body of the second instance ends and its AllowedByRobots returns.
OtherReturnAllowed ==
  /\ other.pc = "parsing"
  /\ other' = [other EXCEPT !.allowed = Some(~disallow(other.m)),
                            !.pc = "done"]
  /\ UNCHANGED <<family, matcher_vars_of_first, parser>>

NextInstances ==
  \/ AllowedByRobots \/ ParseLine \/ ReturnAllowed
  \/ OtherAllowedByRobots \/ OtherParseLine \/ OtherReturnAllowed

SpecInstances == InitInstances /\ [][NextInstances]_vars

\* ------------------------------------------------------------------------
\* ParseRobotsTxt on raw bytes, with the recording handler
\* ------------------------------------------------------------------------

matcher_vars == <<pc, m, robots_body, url, allowed, reused, earlier, other>>

\* The line Parse() cuts out from line_start up to offset `end`, and whether
\* it was cut at kMaxLineLen.
CutLine(p, end) ==
  LET line_len      == end - p.line_start
      line_too_long == line_len > kMaxLineLen
  IN  [line |-> Substr(p.robots_body_, p.line_start,
                       IF line_too_long THEN kMaxLineLen ELSE line_len),
       line_too_long |-> line_too_long]

\* The parser after ParseAndEmitLine(++line_num, ...) on the line ending at
\* `end`.
EmitLine(p, end) ==
  LET cut == CutLine(p, end)
  IN  [p EXCEPT !.line_num = @ + 1,
                !.trace = @ \o ParseAndEmitLineCallbacks(
                                 p.line_num + 1, cut.line, cut.line_too_long)]

\* The test that never takes a line feed for the second character of CRLF.
is_CRLF_continuation_never(p, j) == FALSE

\* The line-ending character at offset j is the second character of a DOS
\* line ending.
is_CRLF_continuation(p, j) ==
  /\ j = p.line_start
  /\ p.last_was_carriage_return
  /\ At(p.robots_body_, j) = 10

\* ParseRobotsTxt is called: the parser is constructed on the body, the
\* handler gets HandleRobotsStart and the BOM is skipped.
ParseStart ==
  /\ parser.pc = "idle"
  /\ \E input \in Inputs(family) :
       LET body == BodyBytes(input)
       IN  parser' = [pc |-> "scanning", input |-> input,
                      robots_body_ |-> body, i |-> BomSkip(body),
                      line_start |-> BomSkip(body), line_num |-> 0,
                      last_was_carriage_return |-> FALSE,
                      trace |-> <<Callback("HandleRobotsStart", 0, <<>>,
                                           LineMetadata)>>]
  /\ UNCHANGED <<family, matcher_vars>>

\* The for loop of Parse() runs up to and including the next line-ending
\* character.
ParseLineEnding ==
  /\ parser.pc = "scanning"
  /\ NextLineEnding(parser.robots_body_, parser.i) # Npos
  /\ LET j  == NextLineEnding(parser.robots_body_, parser.i)
         p1 == IF is_CRLF_continuation(parser, j) THEN parser
               ELSE EmitLine(parser, j)
     IN  parser' = [p1 EXCEPT !.line_start = j + 1,
                              !.last_was_carriage_return =
                                (At(parser.robots_body_, j) = 13),
                              !.i = j + 1]
  /\ UNCHANGED <<family, matcher_vars>>

\* The for loop ends: the final line is emitted and the handler gets
\* HandleRobotsEnd.
ParseFinalLine ==
  /\ parser.pc = "scanning"
  /\ NextLineEnding(parser.robots_body_, parser.i) = Npos
  /\ LET p1 == IF parser.line_start <= Len(parser.robots_body_)
               THEN EmitLine(parser, Len(parser.robots_body_))
               ELSE parser
     IN  parser' = [p1 EXCEPT !.pc = "done",
                              !.i = Len(parser.robots_body_),
                              !.trace = Append(@, Callback("HandleRobotsEnd",
                                                           0, <<>>,
                                                           LineMetadata))]
  /\ UNCHANGED <<family, matcher_vars>>

NextParser == ParseStart \/ ParseLineEnding \/ ParseFinalLine

InitLineEnds == InitFamily("lineends")

InitLineCap == InitFamily("linecap")

SpecLineEnds == InitLineEnds /\ [][NextParser]_vars

SpecLineCap == InitLineCap /\ [][NextParser]_vars

\* ------------------------------------------------------------------------
\* The robots.txt rules as the specification states them, defined on the
\* body as a whole and without the matcher's flags.
\* ------------------------------------------------------------------------

IsRuleLine(ln) == ln.key \in {"ALLOW", "DISALLOW"}

IsAgentLine(ln) == ln.key = "USER_AGENT"

MaxOf(S) == IF S = {} THEN -1 ELSE CHOOSE x \in S : \A y \in S : x >= y

\* The bytes [A-Za-z_-].
AgentNameBytes == (65..90) \cup (97..122) \cup {45, 95}

\* The maximal leading run of [A-Za-z_-] bytes of a User-agent value.
LeadingName(v) ==
  LET n == CHOOSE k \in 0..Len(v) :
             /\ \A i \in 1..k : v[i] \in AgentNameBytes
             /\ (k = Len(v) \/ v[k + 1] \notin AgentNameBytes)
  IN  [i \in 1..n |-> v[i]]

LowerCase(v) == [i \in 1..Len(v) |-> IF v[i] \in 65..90 THEN v[i] + 32 ELSE v[i]]

\* A User-agent value of the `*` group.
IsStarValue(v) == v = <<42>> \/ (Len(v) >= 2 /\ v[1] = 42 /\ AsciiIsSpace(v[2]))

\* The User-agent value v names the queried agent x.
NamesAgent(v, x) ==
  ~IsStarValue(v) /\ LowerCase(LeadingName(v)) = LowerCase(x)

Range(seq) == {seq[i] : i \in 1..Len(seq)}

\* The User-agent value v names one of the queried agents.
NamesQueried(v, agents) == \E x \in Range(agents) : NamesAgent(v, x)

\* The User-agent lines heading the group that line i of the body belongs
\* to: the last User-agent line before i and the User-agent lines before it
\* that no Allow or Disallow line separates from it.
GroupHeader(body, i) ==
  LET before == {k \in 1..(i - 1) : IsAgentLine(body[k])}
  IN  IF before = {} THEN {}
      ELSE LET j == MaxOf(before)
           IN  {k \in before :
                  \A r \in (k + 1)..(j - 1) : ~IsRuleLine(body[r])}

\* The lengths of the agent names of the body that name a queried agent.
MatchedNameLengths(body, agents) ==
  {Len(LeadingName(body[k].value)) :
     k \in {j \in 1..Len(body) :
              IsAgentLine(body[j]) /\ NamesQueried(body[j].value, agents)}}

\* Line k is a User-agent line naming a queried agent of the longest name
\* matched anywhere in the body.
NamesLongestQueried(body, agents, k) ==
  /\ NamesQueried(body[k].value, agents)
  /\ Len(LeadingName(body[k].value)) = MaxOf(MatchedNameLengths(body, agents))

\* The Allow and Disallow lines of the groups of the `*` agent.
GlobalRules(body) ==
  {i \in 1..Len(body) :
     /\ IsRuleLine(body[i])
     /\ \E k \in GroupHeader(body, i) : IsStarValue(body[k].value)}

\* The Allow and Disallow lines of the groups naming a queried agent of the
\* longest matched name.
SpecificRules(body, agents) ==
  {i \in 1..Len(body) :
     /\ IsRuleLine(body[i])
     /\ \E k \in GroupHeader(body, i) : NamesLongestQueried(body, agents, k)}

\* The Allow and Disallow lines of the groups naming any queried agent.
AnyAgentRules(body, agents) ==
  {i \in 1..Len(body) :
     /\ IsRuleLine(body[i])
     /\ \E k \in GroupHeader(body, i) : NamesQueried(body[k].value, agents)}

\* The rules of the scope that decides the verdict: the specific scope when
\* a group names a queried agent, the `*` scope otherwise.
DecidingRules(body, agents) ==
  IF MatchedNameLengths(body, agents) # {}
  THEN SpecificRules(body, agents) ELSE GlobalRules(body)

\* The pattern of a rule line as the matcher receives it.
Delivered(ln) == MaybeEscapePattern(ln.value)

\* The directory pattern tried for an Allow pattern whose last segment
\* begins with index.htm: the pattern cut after its last '/', plus '$'.
HasDirectoryFallback(pattern) ==
  /\ FindLastOf(pattern, 47) # Npos
  /\ StartsWith(SubstrFrom(pattern, FindLastOf(pattern, 47)), S_index_htm)

DirectoryPattern(pattern) ==
  Append(Substr(pattern, 0, FindLastOf(pattern, 47) + 1), 36)

\* The lengths of the patterns of the rules R of one kind that match the
\* path themselves.
DirectMatchLengths(body, R, key, path) ==
  {Len(Delivered(body[i])) :
     i \in {j \in R : body[j].key = key /\ Matches(path, Delivered(body[j]))}}

\* The lengths of the directory patterns that match the path for the Allow
\* rules of R whose own pattern does not.
FallbackMatchLengths(body, R, path) ==
  {Len(DirectoryPattern(Delivered(body[i]))) :
     i \in {j \in R :
              /\ body[j].key = "ALLOW"
              /\ ~Matches(path, Delivered(body[j]))
              /\ HasDirectoryFallback(Delivered(body[j]))
              /\ Matches(path, DirectoryPattern(Delivered(body[j])))}}

\* Longest match over the rules R: disallowed iff some rule matches with a
\* non-empty pattern and the longest Disallow match is strictly longer than
\* the longest Allow match.
RulesDisallow(body, R, path) ==
  LET a == MaxOf(DirectMatchLengths(body, R, "ALLOW", path)
                 \cup FallbackMatchLengths(body, R, path))
      d == MaxOf(DirectMatchLengths(body, R, "DISALLOW", path))
  IN  (a > 0 \/ d > 0) /\ d > a

Done == pc = "done"

Verdict == allowed[1]

\* The queried agents and the path matched, of the current query.
Agents == m.user_agents_

Path == GetPathParamsQuery(url)

\* The matcher a newly constructed RobotsMatcher is when the parser starts
\* on the current query, and its state after the lines of `body`.
FreshMatcher ==
  HandleRobotsStart(InitUserAgentsAndPath(NewMatcher, Agents, Path))

FreshParse(body) == ParseLines(FreshMatcher, body, 1)

\* Some group of the body names a queried agent.
SomeGroupNamesAgent == MatchedNameLengths(robots_body, Agents) # {}

\* The rule lines of R of one kind whose own pattern matches the path with
\* a non-empty pattern.
MatchingRules(R, key) ==
  {i \in R : /\ robots_body[i].key = key
             /\ Len(Delivered(robots_body[i])) > 0
             /\ Matches(Path, Delivered(robots_body[i]))}

\* ------------------------------------------------------------------------
\* C1
\* ------------------------------------------------------------------------

LongestDirectAllow ==
  MaxOf(DirectMatchLengths(robots_body, DecidingRules(robots_body, Agents),
                           "ALLOW", Path))

LongestFallbackAllow ==
  MaxOf(FallbackMatchLengths(robots_body, DecidingRules(robots_body, Agents),
                             Path))

LongestDisallow ==
  MaxOf(DirectMatchLengths(robots_body, DecidingRules(robots_body, Agents),
                           "DISALLOW", Path))

\* C1 as stated: for a query whose agent a group names, when at least one
\* Allow pattern and at least one Disallow pattern of the deciding scope
\* match the path, the URL is disallowed iff the longest matching Disallow
\* pattern is strictly longer than the longest matching Allow pattern.
C1_LongestPatternDecides ==
  (/\ Done
   /\ SomeGroupNamesAgent
   /\ LongestDirectAllow >= 0
   /\ LongestDisallow >= 0)
    => (Verdict = FALSE <=> LongestDisallow > LongestDirectAllow)

\* C1 amended: an Allow rule whose pattern does not match the path but whose
\* directory pattern (index.htm fallback) does counts as a matching Allow
\* pattern of the directory pattern's length; with that, the URL is
\* disallowed iff the longest matching Disallow pattern is strictly longer
\* than the longest matching Allow pattern, equal lengths being allowed.
C1_LongestMatchWithFallback ==
  (/\ Done
   /\ SomeGroupNamesAgent
   /\ Max(LongestDirectAllow, LongestFallbackAllow) >= 0
   /\ LongestDisallow >= 0)
    => (Verdict = FALSE
          <=> LongestDisallow > Max(LongestDirectAllow, LongestFallbackAllow))

\* A finished query where a Disallow pattern is longer than every Allow
\* pattern matching the path, the fallback of an index.htm rule levels it,
\* and the URL is allowed.
C1_Witness ==
  /\ Done
  /\ SomeGroupNamesAgent
  /\ LongestDirectAllow >= 0
  /\ LongestDisallow > LongestDirectAllow
  /\ LongestFallbackAllow = LongestDisallow
  /\ Verdict = TRUE

\* ------------------------------------------------------------------------
\* C2
\* ------------------------------------------------------------------------

\* C2: if a group of the body names a queried agent, the verdict is the
\* longest-match decision over the rules of the named agent's groups alone;
\* rules that belong only to `*` groups do not influence it, also when no
\* rule of the named groups matches the path (the URL is then allowed).
C2_GroupExclusivity ==
  (Done /\ SomeGroupNamesAgent)
    => /\ Verdict = ~RulesDisallow(robots_body,
                                   SpecificRules(robots_body, Agents), Path)
       /\ (/\ MatchingRules(SpecificRules(robots_body, Agents), "ALLOW") = {}
           /\ MatchingRules(SpecificRules(robots_body, Agents), "DISALLOW") = {})
            => Verdict = TRUE

\* A finished query with a group naming the agent, none of whose rules
\* matches the path, and a Disallow rule of a `*` group that matches it: the
\* URL is allowed.
C2_Witness ==
  /\ Done
  /\ SomeGroupNamesAgent
  /\ MatchingRules(SpecificRules(robots_body, Agents), "ALLOW") = {}
  /\ MatchingRules(SpecificRules(robots_body, Agents), "DISALLOW") = {}
  /\ MatchingRules(GlobalRules(robots_body), "DISALLOW") # {}
  /\ MatchingRules(GlobalRules(robots_body), "ALLOW") = {}
  /\ Verdict = TRUE

\* ------------------------------------------------------------------------
\* C3
\* ------------------------------------------------------------------------

\* No User-agent line of the body is a `*` line or names a queried agent
\* (an empty body included).
NoGroupApplies ==
  \A k \in 1..Len(robots_body) :
    IsAgentLine(robots_body[k])
      => /\ ~IsStarValue(robots_body[k].value)
         /\ ~NamesQueried(robots_body[k].value, Agents)

\* C3: if the body is empty, or holds no group naming a queried agent and
\* no `*` group, the URL is allowed.
C3_NoApplicableGroupAllows ==
  (Done /\ NoGroupApplies) => Verdict = TRUE

\* A finished query on a body whose only group names another agent and
\* holds a Disallow rule matching the path: the URL is allowed.
C3_Witness ==
  /\ Done
  /\ NoGroupApplies
  /\ \E k, i \in 1..Len(robots_body) :
       /\ k < i
       /\ IsAgentLine(robots_body[k])
       /\ robots_body[i].key = "DISALLOW"
       /\ Len(Delivered(robots_body[i])) > 0
       /\ Matches(Path, Delivered(robots_body[i]))
  /\ Verdict = TRUE

\* ------------------------------------------------------------------------
\* C4, C5
\* ------------------------------------------------------------------------

\* The query names several agents and groups of the body name queried
\* agents of different lengths.
AgentsOfDifferentLengthsMatched ==
  /\ Len(Agents) >= 2
  /\ Cardinality(MatchedNameLengths(robots_body, Agents)) >= 2

\* The rules of groups that name a queried agent but none of the longest
\* matched name.
ShorterAgentRules ==
  AnyAgentRules(robots_body, Agents) \ SpecificRules(robots_body, Agents)

C5_AllMatchingAgentsCombined ==
  (Done /\ Len(Agents) >= 2 /\ SomeGroupNamesAgent)
    => Verdict = ~RulesDisallow(robots_body,
                                AnyAgentRules(robots_body, Agents), Path)

\* ------------------------------------------------------------------------
\* C6
\* ------------------------------------------------------------------------

CurrentHeader == GroupHeader(robots_body, Len(robots_body) + 1)

\* Line k names a queried agent whose name is the longest matched up to and
\* including line k.
Admitted(body, agents, k) ==
  /\ NamesQueried(body[k].value, agents)
  /\ Len(LeadingName(body[k].value))
       = MaxOf(MatchedNameLengths(SubSeq(body, 1, k), agents))

\* The lines that are neither User-agent nor Allow nor Disallow lines:
\* Sitemap, unknown, Crawl-delay, Request-rate and Content-Signal.
IsOtherLine(ln) == ~IsAgentLine(ln) /\ ~IsRuleLine(ln)

KeepsGroups(ln) == ~IsOtherLine(ln)

\* C7: only Allow and Disallow lines close a group.  While a body is
\* parsed, the agents the parser holds the next rule to apply to are those
\* of the User-agent lines that no Allow or Disallow line separates from
\* the last User-agent line, whatever Sitemap, unknown, Crawl-delay,
\* Request-rate and Content-Signal lines stand between them; and the
\* verdict is the verdict for the body without those lines.
C7_OnlyRulesCloseGroups ==
  /\ pc # "idle" =>
       /\ m.seen_global_agent_
            = (\E k \in CurrentHeader : IsStarValue(robots_body[k].value))
       /\ m.seen_specific_agent_
            = (\E k \in CurrentHeader : Admitted(robots_body, Agents, k))
  /\ Done =>
       Verdict = ~disallow(FreshParse(SelectSeq(robots_body, KeepsGroups)))

\* A finished query on a body where a Sitemap, unknown, Crawl-delay,
\* Request-rate or Content-Signal line stands between the User-agent line
\* of the queried agent and a `*` line, and the Disallow rule that follows
\* forbids the URL to the queried agent.
C7_Witness ==
  /\ Done
  /\ Len(robots_body) = 4
  /\ IsAgentLine(robots_body[1])
  /\ NamesQueried(robots_body[1].value, Agents)
  /\ IsOtherLine(robots_body[2])
  /\ IsAgentLine(robots_body[3])
  /\ IsStarValue(robots_body[3].value)
  /\ robots_body[4].key = "DISALLOW"
  /\ ever_seen_specific_agent(m)
  /\ Verdict = FALSE

\* ------------------------------------------------------------------------
\* C8
\* ------------------------------------------------------------------------

\* The lines of body at the indices of S, in the order of the body.
RECURSIVE LinesAt(_, _, _)
LinesAt(body, S, i) ==
  IF i > Len(body) THEN <<>>
  ELSE (IF i \in S THEN <<body[i]>> ELSE <<>>) \o LinesAt(body, S, i + 1)

\* The User-agent lines naming the queried agent of the longest matched
\* name.
LongestAgentLines ==
  {k \in 1..Len(robots_body) :
     /\ IsAgentLine(robots_body[k])
     /\ NamesLongestQueried(robots_body, Agents, k)}

\* One group holding all the rules of the groups that name the agent.
MergedGroup ==
  <<robots_body[CHOOSE k \in LongestAgentLines : TRUE]>>
    \o LinesAt(robots_body, SpecificRules(robots_body, Agents), 1)

\* C8: when groups of the body name the queried agent, the verdict equals
\* the verdict for a body made of a single group of that agent holding all
\* the Allow and Disallow rules of those groups.
C8_SameAgentGroupsCombined ==
  (Done /\ SomeGroupNamesAgent)
    => Verdict = ~disallow(FreshParse(MergedGroup))

\* A finished query on a body with two groups of the queried agent that a
\* rule separates, each with a rule matching the path.
C8_Witness ==
  /\ Done
  /\ \E k1, i1, k2, i2 \in 1..Len(robots_body) :
       /\ k1 < i1 /\ i1 < k2 /\ k2 < i2
       /\ {k1, k2} \subseteq LongestAgentLines
       /\ i1 \in MatchingRules(SpecificRules(robots_body, Agents), "DISALLOW")
       /\ i2 \in MatchingRules(SpecificRules(robots_body, Agents), "ALLOW")
       /\ Len(Delivered(robots_body[i2])) < Len(Delivered(robots_body[i1]))
  /\ Verdict = FALSE

\* ------------------------------------------------------------------------
\* C9
\* ------------------------------------------------------------------------

\* The Allow and Disallow lines before any User-agent line or in a group
\* none of whose User-agent lines is `*` or names a queried agent.
RulesOutsideGroups ==
  {i \in 1..Len(robots_body) :
     /\ IsRuleLine(robots_body[i])
     /\ \A k \in GroupHeader(robots_body, i) :
          /\ ~IsStarValue(robots_body[k].value)
          /\ ~NamesQueried(robots_body[k].value, Agents)}

\* The body with the lines of S turned into lines of an unknown key.
Blanked(body, S) ==
  [i \in 1..Len(body) |->
     IF i \in S THEN Line("UNKNOWN", body[i].value) ELSE body[i]]

\* C9: an Allow or Disallow line outside the groups that apply never
\* affects the verdict or matching_line(): both are what they are for the
\* body with those lines made void, and matching_line() is none of them.
C9_RulesOutsideGroupsIgnored ==
  Done =>
    LET without == FreshParse(Blanked(robots_body, RulesOutsideGroups))
    IN  /\ Verdict = ~disallow(without)
        /\ matching_line(m) = matching_line(without)
        /\ matching_line(m) \notin RulesOutsideGroups

\* A finished query on a body where a Disallow rule outside the groups that
\* apply matches the path, a group that applies follows it, and the URL is
\* allowed.
C9_Witness ==
  /\ Done
  /\ \E i \in MatchingRules(RulesOutsideGroups, "DISALLOW") :
       \E k \in (i + 1)..Len(robots_body) :
         /\ IsAgentLine(robots_body[k])
         /\ \/ IsStarValue(robots_body[k].value)
            \/ NamesQueried(robots_body[k].value, Agents)
  /\ Verdict = TRUE

\* ------------------------------------------------------------------------
\* C10
\* ------------------------------------------------------------------------

Unreserved == (65..90) \cup (97..122) \cup (48..57) \cup {45, 46, 95, 126}

HexDigits == (48..57) \cup (65..70) \cup (97..102)

\* A %HH escape stands at index i (1-based) of s.
EscapeAt(s, i) ==
  /\ i + 2 <= Len(s)
  /\ s[i] = 37
  /\ s[i + 1] \in HexDigits
  /\ s[i + 2] \in HexDigits

UpperHex(n) == IF n < 10 THEN 48 + n ELSE 55 + n

\* s from index i on with every unreserved octet outside an escape replaced
\* by its %HH encoding.
RECURSIVE EncodeUnreservedFrom(_, _)
EncodeUnreservedFrom(s, i) ==
  IF i > Len(s) THEN <<>>
  ELSE IF EscapeAt(s, i)
  THEN <<s[i], s[i + 1], s[i + 2]>> \o EncodeUnreservedFrom(s, i + 3)
  ELSE IF s[i] \in Unreserved
  THEN <<37, UpperHex(s[i] \div 16), UpperHex(s[i] % 16)>>
       \o EncodeUnreservedFrom(s, i + 1)
  ELSE <<s[i]>> \o EncodeUnreservedFrom(s, i + 1)

EncodeUnreserved(s) == EncodeUnreservedFrom(s, 1)

\* A newly constructed matcher run on `body` for the current agents and the
\* path of `u`.
FreshParseForUrl(u, body) ==
  ParseLines(
    HandleRobotsStart(
      InitUserAgentsAndPath(NewMatcher, Agents, GetPathParamsQuery(u))),
    body, 1)

\* C11: the verdict for a URL equals the verdict, on the same body and
\* agents, for the URL with its unreserved octets replaced by their %HH
\* encodings, whatever patterns (with `*` or a trailing `$`) the body holds.
C11_PercentEncodingEquivalence ==
  Done =>
    Verdict = ~disallow(FreshParseForUrl(EncodeUnreserved(url), robots_body))

\* ------------------------------------------------------------------------
\* C12
\* ------------------------------------------------------------------------

HexValue(c) ==
  IF c \in 48..57 THEN c - 48 ELSE IF c \in 65..70 THEN c - 55 ELSE c - 87

\* The octets s stands for from index i on: every %HH escape replaced by
\* the octet it encodes.
RECURSIVE DecodedOctetsFrom(_, _)
DecodedOctetsFrom(s, i) ==
  IF i > Len(s) THEN <<>>
  ELSE IF EscapeAt(s, i)
  THEN <<HexValue(s[i + 1]) * 16 + HexValue(s[i + 2])>>
       \o DecodedOctetsFrom(s, i + 3)
  ELSE <<s[i]>> \o DecodedOctetsFrom(s, i + 1)

DecodedOctets(s) == DecodedOctetsFrom(s, 1)

IsPrefix(a, b) == Len(a) <= Len(b) /\ SubSeq(b, 1, Len(a)) = a

\* A pattern without a raw `*` or `$` that holds the escape of one: %2A or
\* %24, in either case of the hex digits.
HasEscapedSpecial(pattern) ==
  /\ \A i \in 1..Len(pattern) : pattern[i] \notin {42, 36}
  /\ \E i \in 1..Len(pattern) :
       /\ EscapeAt(pattern, i)
       /\ HexValue(pattern[i + 1]) * 16 + HexValue(pattern[i + 2]) \in {42, 36}

\* The rule lines of the deciding scope.
Deciding == DecidingRules(robots_body, Agents)

\* C12: a rule pattern holding %2A or %24 (and no raw `*` or `$`) matches
\* the path of a URL iff the octets of the URL, a `*` or `$` of it written
\* raw or escaped, begin with the octets the pattern stands for: the escape
\* is a literal, never a wildcard or an anchor.  When every rule of the
\* deciding scope is a Disallow rule with such a pattern, the URL is
\* disallowed iff one of them matches in that sense.
C12_EscapedSpecialsAreLiterals ==
  Done =>
    /\ \A i \in 1..Len(robots_body) :
         (IsRuleLine(robots_body[i]) /\ HasEscapedSpecial(robots_body[i].value))
           => ((MatchDisallow(m.path_, Delivered(robots_body[i])) >= 0)
                 <=> IsPrefix(DecodedOctets(robots_body[i].value),
                              DecodedOctets(url)))
    /\ (/\ Deciding # {}
        /\ \A i \in Deciding :
             /\ robots_body[i].key = "DISALLOW"
             /\ HasEscapedSpecial(robots_body[i].value))
         => (Verdict = FALSE
               <=> \E i \in Deciding :
                     IsPrefix(DecodedOctets(robots_body[i].value),
                              DecodedOctets(url)))

\* A finished query for the URL "/*" on a body whose only rule is
\* Disallow: /%2a: the URL is disallowed.
C12_Witness ==
  /\ Done
  /\ url = S_slash_star
  /\ robots_body = <<Line("USER_AGENT", S_star), Line("DISALLOW", S_slash_pct2a)>>
  /\ Verdict = FALSE

\* ------------------------------------------------------------------------
\* C13
\* ------------------------------------------------------------------------

\* The length of the pattern of rule line i when it matches the path
\* itself, -1 when it does not.
DirectPriority(i) ==
  IF Matches(Path, Delivered(robots_body[i]))
  THEN Len(Delivered(robots_body[i])) ELSE -1

\* The priority rule line i holds for the path: the length of its pattern
\* when the pattern matches; for an Allow rule whose pattern does not match
\* and whose last segment begins with index.htm, the length of its
\* directory pattern when that matches; -1 otherwise.
RulePriority(i) ==
  IF DirectPriority(i) >= 0 THEN DirectPriority(i)
  ELSE IF /\ robots_body[i].key = "ALLOW"
          /\ HasDirectoryFallback(Delivered(robots_body[i]))
          /\ Matches(Path, DirectoryPattern(Delivered(robots_body[i])))
  THEN Len(DirectoryPattern(Delivered(robots_body[i])))
  ELSE -1

\* C13 as stated: after a query, matching_line() is the line of a rule of
\* the deciding scope whose pattern matches the path and is as long as the
\* longest pattern of that scope matching the path, and 0 when no pattern of
\* that scope matches the path.
C13_LineOfHighestPriorityMatch ==
  Done =>
    LET matched == {i \in Deciding : DirectPriority(i) >= 0}
    IN  IF matched = {} THEN matching_line(m) = 0
        ELSE /\ matching_line(m) \in matched
             /\ \A i \in matched :
                  DirectPriority(matching_line(m)) >= DirectPriority(i)

\* C13 amended: an Allow rule matched only through its directory pattern
\* (index.htm fallback) is a matching rule with the directory pattern's
\* length as priority; matching_line() is the line of a rule of the
\* deciding scope of highest priority, and 0 when no rule of that scope has
\* a priority.
C13_LineOfHighestPriorityWithFallback ==
  Done =>
    LET matched == {i \in Deciding : RulePriority(i) >= 0}
    IN  IF matched = {} THEN matching_line(m) = 0
        ELSE /\ matching_line(m) \in matched
             /\ \A i \in matched :
                  RulePriority(matching_line(m)) >= RulePriority(i)

\* A finished query of an agent with a group of its own, where a `*` group
\* holds a matching rule too, a Disallow rule of the agent's group matches
\* with a longer pattern than an Allow rule of it, and the Disallow rule's
\* line is reported.
C13_Witness ==
  /\ Done
  /\ SomeGroupNamesAgent
  /\ \E i \in GlobalRules(robots_body) : RulePriority(i) >= 0
  /\ \E i, j \in Deciding :
       /\ robots_body[i].key = "ALLOW"
       /\ robots_body[j].key = "DISALLOW"
       /\ RulePriority(i) >= 0
       /\ RulePriority(j) > RulePriority(i)
       /\ matching_line(m) = j

\* ------------------------------------------------------------------------
\* C14
\* ------------------------------------------------------------------------

\* The highest priority among the rules of one kind in the deciding scope.
TopPriority(key) ==
  MaxOf({RulePriority(i) : i \in {j \in Deciding : robots_body[j].key = key}})

\* An Allow rule and a Disallow rule of the deciding scope match the path
\* with the same priority, and no rule of the scope has a higher one.
TopTie ==
  /\ TopPriority("ALLOW") >= 0
  /\ TopPriority("ALLOW") = TopPriority("DISALLOW")

\* C14 as stated: when an Allow rule and a Disallow rule of the deciding
\* scope match the path with equal (highest) priority, their patterns not
\* empty, matching_line() is the line of the Disallow rule.
C14_TieReportsDisallowLine ==
  (/\ Done
   /\ TopTie
   /\ TopPriority("ALLOW") > 0
   /\ LongestFallbackAllow < LongestDirectAllow) =>
    /\ matching_line(m) \in Deciding
    /\ robots_body[matching_line(m)].key = "DISALLOW"

\* C14 amended: when an Allow rule and a Disallow rule of the deciding scope
\* match the path with equal highest priority, matching_line() is the line
\* of an Allow rule of that priority.
C14_TieReportsAllowLine ==
  (Done /\ TopTie) =>
    /\ matching_line(m) \in Deciding
    /\ robots_body[matching_line(m)].key = "ALLOW"
    /\ RulePriority(matching_line(m)) = TopPriority("ALLOW")

\* A finished query where the Disallow rule comes first, an Allow rule after
\* it matches with the same non-empty pattern length, and the Allow rule's
\* line is reported.
C14_Witness ==
  /\ Done
  /\ TopTie
  /\ TopPriority("ALLOW") > 0
  /\ \E i, j \in Deciding :
       /\ i < j
       /\ robots_body[i].key = "DISALLOW"
       /\ robots_body[j].key = "ALLOW"
       /\ RulePriority(i) = TopPriority("ALLOW")
       /\ RulePriority(j) = TopPriority("ALLOW")
       /\ matching_line(m) = j

\* ------------------------------------------------------------------------
\* C15
\* ------------------------------------------------------------------------

\* The User-agent lines of the body that name a queried agent.
NamingLines ==
  {k \in 1..Len(robots_body) :
     /\ IsAgentLine(robots_body[k])
     /\ NamesQueried(robots_body[k].value, Agents)}

HasStarGroup ==
  \E k \in 1..Len(robots_body) :
    IsAgentLine(robots_body[k]) /\ IsStarValue(robots_body[k].value)

\* C16: once a query on a matcher has matched a specific group, after a
\* later query on the same matcher and the same body for an agent that only
\* the `*` group serves, ever_seen_specific_agent() is still true.
C16_EverSeenSurvivesLaterQuery ==
  (/\ Done
   /\ HasValue(earlier)
   /\ earlier[1].ever_seen_specific_agent
   /\ earlier[1].robots_body = robots_body
   /\ HasStarGroup
   /\ ~SomeGroupNamesAgent)
    => ever_seen_specific_agent(m)

\* ------------------------------------------------------------------------
\* C17
\* ------------------------------------------------------------------------

SideChannelKeys == {"CRAWL_DELAY", "REQUEST_RATE", "CONTENT_SIGNAL"}

\* Line i stands in a group one of whose User-agent lines names a queried
\* agent no shorter than every agent named up to there: the specific scope.
InSpecificScope(i) ==
  \E k \in GroupHeader(robots_body, i) : Admitted(robots_body, Agents, k)

\* Line i stands in a group of the `*` agent that is not also a group of the
\* specific scope.
InGlobalScope(i) ==
  /\ ~InSpecificScope(i)
  /\ \E k \in GroupHeader(robots_body, i) : IsStarValue(robots_body[k].value)

\* The lines of one directive in one scope.
SpecificLines(key) ==
  {i \in 1..Len(robots_body) : robots_body[i].key = key /\ InSpecificScope(i)}

GlobalLines(key) ==
  {i \in 1..Len(robots_body) : robots_body[i].key = key /\ InGlobalScope(i)}

\* The value the parser hands over for the side-channel line i.
ParsedValue(i) ==
  CASE robots_body[i].key = "CRAWL_DELAY" ->
         ParseCrawlDelay(robots_body[i].value)
    [] robots_body[i].key = "REQUEST_RATE" ->
         ParseRequestRate(robots_body[i].value)
    [] robots_body[i].key = "CONTENT_SIGNAL" ->
         ParseContentSignal(robots_body[i].value)

ValuesOf(S) == {ParsedValue(i) : i \in S}

\* What the accessor of a directive returns.
Accessor(key) ==
  CASE key = "CRAWL_DELAY"    -> GetCrawlDelay(m)
    [] key = "REQUEST_RATE"   -> GetRequestRate(m)
    [] key = "CONTENT_SIGNAL" -> GetContentSignal(m)

FirstValue(S) ==
  IF S = {} THEN Nullopt
  ELSE Some(ParsedValue(CHOOSE i \in S : \A j \in S : i <= j))

\* The value the matcher holds for a directive in each scope.
StoredSpecific(key) ==
  CASE key = "CRAWL_DELAY"    -> m.crawl_delay_specific_
    [] key = "REQUEST_RATE"   -> m.request_rate_specific_
    [] key = "CONTENT_SIGNAL" -> m.content_signal_specific_

StoredGlobal(key) ==
  CASE key = "CRAWL_DELAY"    -> m.crawl_delay_global_
    [] key = "REQUEST_RATE"   -> m.request_rate_global_
    [] key = "CONTENT_SIGNAL" -> m.content_signal_global_

\* C18: first value wins.  At every point of a parse the value held for a
\* directive in a scope is the value of the first line of that directive in
\* that scope read so far: no later line of the scope, in the same or a
\* later group, replaces it.
C18_FirstValueWins ==
  (pc # "idle") =>
    \A key \in SideChannelKeys :
      /\ StoredSpecific(key) = FirstValue(SpecificLines(key))
      /\ StoredGlobal(key) = FirstValue(GlobalLines(key))

\* A finished query whose body sets Crawl-delay in the agent's group and,
\* after a rule has closed that group, with another value in a later group
\* of the same agent: the first value is returned.
C18_Witness ==
  /\ Done
  /\ \E i, j \in SpecificLines("CRAWL_DELAY") :
       /\ i < j
       /\ ParsedValue(i) # ParsedValue(j)
       /\ GroupHeader(robots_body, i) \cap GroupHeader(robots_body, j) = {}
       /\ \E r \in (i + 1)..(j - 1) : IsRuleLine(robots_body[r])
       /\ GetCrawlDelay(m) = Some(ParsedValue(i))

\* ------------------------------------------------------------------------
\* C19
\* ------------------------------------------------------------------------

\* A non-empty run of decimal digits standing for a number above 0.
IsPositiveNumber(v) ==
  /\ Len(v) > 0
  /\ \A i \in 1..Len(v) : v[i] \in 48..57
  /\ \E i \in 1..Len(v) : v[i] # 48

\* v without an `s` or `S` at its end.
WithoutSecondsSuffix(v) ==
  IF Len(v) > 0 /\ v[Len(v)] \in {115, 83} THEN SubSeq(v, 1, Len(v) - 1) ELSE v

\* A Request-rate value of the grammar digits [ "/" digits [s] ] with every
\* number above 0.
WellFormedRate(v) ==
  \/ IsPositiveNumber(v)
  \/ \E k \in 1..Len(v) :
       /\ v[k] = 47
       /\ IsPositiveNumber(SubSeq(v, 1, k - 1))
       /\ IsPositiveNumber(WithoutSecondsSuffix(SubSeq(v, k + 1, Len(v))))

\* The Request-rate lines of the groups that apply to the query.
RateLines == SpecificLines("REQUEST_RATE") \cup GlobalLines("REQUEST_RATE")

\* C19: a Request-rate line whose value is malformed or holds a number <= 0
\* stores nothing: after a query whose applicable groups hold Request-rate
\* lines and only such ones, get_request_rate() is empty.
C19_InvalidRateStoresNothing ==
  (/\ Done
   /\ RateLines # {}
   /\ \A i \in RateLines : ~WellFormedRate(robots_body[i].value))
    => GetRequestRate(m) = Nullopt

\* ------------------------------------------------------------------------
\* C20
\* ------------------------------------------------------------------------

\* C20: every RequestRate get_request_rate() returns has requests >= 1 and
\* seconds >= 1, whatever the text of the Request-rate line.
C20_ReturnedRateIsPositive ==
  (Done /\ HasValue(GetRequestRate(m)))
    => /\ GetRequestRate(m)[1].requests >= 1
       /\ GetRequestRate(m)[1].seconds >= 1

\* ------------------------------------------------------------------------
\* C21
\* ------------------------------------------------------------------------

ParserDone == parser.pc = "done"

\* The lines of a raw body as written: the contents of its segments, and
\* the empty line that follows a last terminator (or makes up an empty
\* body).
WrittenLines(input) ==
  [k \in 1..Len(input) |-> input[k].content]
    \o (IF input = <<>> \/ input[Len(input)].ending # <<>>
        THEN <<S_empty>> ELSE <<>>)

IsDirectiveCallback(e) == e.cb \in DirectiveCallbacks

\* The directive callbacks the lines `lines`, numbered from k on, call for
\* when none of them is too long.
RECURSIVE DirectivesOfLines(_, _)
DirectivesOfLines(lines, k) ==
  IF lines = <<>> THEN <<>>
  ELSE SelectSeq(ParseAndEmitLineCallbacks(k, Head(lines), FALSE),
                 IsDirectiveCallback)
       \o DirectivesOfLines(Tail(lines), k + 1)

\* The directive callbacks received, in order.
DirectiveTrace == SelectSeq(parser.trace, IsDirectiveCallback)

\* A line ended by CR alone is followed by an empty line ended by LF alone:
\* together they read as one CRLF.
CarriageReturnBeforeBlankLF(input) ==
  \E k \in 1..(Len(input) - 1) :
    /\ input[k].ending = CR
    /\ input[k + 1].content = <<>>
    /\ input[k + 1].ending = LF

\* C21 as stated: whatever of LF, CR and CRLF ends each line of a body,
\* empty lines included, the directive callbacks and their line numbers are
\* those of the lines as written.
C21_LineEndingIndependence ==
  ParserDone => DirectiveTrace = DirectivesOfLines(WrittenLines(parser.input), 1)

\* C21 amended: the same, for the bodies in which no line ended by CR alone
\* is followed by an empty line ended by LF alone.
C21_LineEndingIndependenceUnambiguous ==
  (ParserDone /\ ~CarriageReturnBeforeBlankLF(parser.input))
    => DirectiveTrace = DirectivesOfLines(WrittenLines(parser.input), 1)

\* A finished parse of a body that uses the three line endings, holds an
\* empty line ended by CRLF after a line ended by CR, and has a directive
\* reported on its third line.
C21_Witness ==
  /\ ParserDone
  /\ ~CarriageReturnBeforeBlankLF(parser.input)
  /\ {parser.input[k].ending : k \in 1..Len(parser.input)} = {LF, CR, CRLF}
  /\ \E k \in 1..(Len(parser.input) - 1) :
       /\ parser.input[k].ending = CR
       /\ parser.input[k + 1] = Segment(S_empty, CRLF)
  /\ \E i \in 1..Len(DirectiveTrace) : DirectiveTrace[i].line = 3

\* ------------------------------------------------------------------------
\* C22
\* ------------------------------------------------------------------------

\* The callbacks for the lines `lines`, numbered from k on, when a line
\* longer than `cap` bytes is handled as its first `cap` bytes and marked
\* too long.
RECURSIVE CallbacksWithCap(_, _, _)
CallbacksWithCap(lines, k, cap) ==
  IF lines = <<>> THEN <<>>
  ELSE ParseAndEmitLineCallbacks(
         k,
         IF Len(Head(lines)) > cap THEN SubSeq(Head(lines), 1, cap)
         ELSE Head(lines),
         Len(Head(lines)) > cap)
       \o CallbacksWithCap(Tail(lines), k + 1, cap)

\* The callbacks received between HandleRobotsStart and HandleRobotsEnd.
LineCallbacks == SubSeq(parser.trace, 2, Len(parser.trace) - 1)

LineCount(body) ==
  1 + Cardinality({j \in 1..Len(body) :
                     \/ body[j] = 13
                     \/ body[j] = 10 /\ (j = 1 \/ body[j - 1] # 13)})

\* The places of a callback sequence that hold a ReportLineMetadata.
MetadataPlaces(cbs) ==
  {i \in 1..Len(cbs) : cbs[i].cb = "ReportLineMetadata"}

\* A sequence of line callbacks has the shape: per line, numbered 1, 2, 3,
\* ..., at most one directive callback, then (once the line is finished)
\* one ReportLineMetadata of the same line number, the directive callback
\* being there exactly when has_directive is reported.
LineBlocks(cbs) ==
  /\ \A i \in 1..Len(cbs) :
       IF cbs[i].cb = "ReportLineMetadata"
       THEN /\ cbs[i].line = Cardinality({j \in MetadataPlaces(cbs) : j <= i})
            /\ cbs[i].metadata.has_directive
                 <=> (i > 1 /\ IsDirectiveCallback(cbs[i - 1]))
       ELSE /\ IsDirectiveCallback(cbs[i])
            /\ i < Len(cbs)
            /\ cbs[i + 1].cb = "ReportLineMetadata"
            /\ cbs[i + 1].line = cbs[i].line

\* C24: the callbacks of ParseRobotsTxt come as HandleRobotsStart once and
\* first; then for each line in source order, numbered 1, 2, 3, ... and a
\* last line without terminator included, at most one directive callback
\* followed by one ReportLineMetadata of the same line number, the directive
\* callback being there exactly when has_directive is reported; then
\* HandleRobotsEnd once and last.
C24_CallbackTraceShape ==
  /\ (parser.pc = "scanning") =>
       /\ parser.trace[1].cb = "HandleRobotsStart"
       /\ LineBlocks(SubSeq(parser.trace, 2, Len(parser.trace)))
  /\ ParserDone =>
       /\ parser.trace[1].cb = "HandleRobotsStart"
       /\ parser.trace[Len(parser.trace)].cb = "HandleRobotsEnd"
       /\ LineBlocks(LineCallbacks)
       /\ Cardinality(MetadataPlaces(LineCallbacks))
            = LineCount(parser.robots_body_)

\* A finished parse of a body with an empty line, a comment line and a
\* directive on a last line without terminator: three lines reported, the
\* last with its directive callback.
C24_Witness ==
  /\ ParserDone
  /\ Len(parser.input) = 3
  /\ parser.input[3] = Segment(S_allow_slash, <<>>)
  /\ \E k, l \in 1..2 :
       /\ parser.input[k].content = S_empty
       /\ parser.input[l].content = S_comment
  /\ Len(LineCallbacks) = 4
  /\ LineCallbacks[3].cb = "HandleAllow"
  /\ LineCallbacks[4].line = 3


\* ------------------------------------------------------------------------
\* The path extracted from the url
\* ------------------------------------------------------------------------

\* C23: for every url, the path extracted for matching begins with '/', so
\* the assertion of InitUserAgentsAndPath holds and no query aborts.
C23_PathBeginsWithSlash ==
  pc # "idle" =>
    /\ pc # "aborted"
    /\ m.path_ # <<>>
    /\ m.path_[1] = 47

\* The url up to its first '#'.
WithoutFragment(u) ==
  LET hashes == {i \in 1..Len(u) : u[i] = 35}
  IN  IF hashes = {} THEN u
      ELSE SubSeq(u, 1, (CHOOSE i \in hashes : \A j \in hashes : i <= j) - 1)

\* The bytes with every '*' written "%2A" and every '$' written "%24".
RECURSIVE Reencoded(_)
Reencoded(s) ==
  IF s = <<>> THEN <<>>
  ELSE Reencoded(SubSeq(s, 1, Len(s) - 1)) \o
       (CASE s[Len(s)] = 42 -> <<37, 50, 65>>
          [] s[Len(s)] = 36 -> <<37, 50, 52>>
          [] OTHER          -> <<s[Len(s)]>>)

BeginsWithSingleSlash(u) ==
  /\ Len(u) >= 1
  /\ u[1] = 47
  /\ Len(u) >= 2 => u[2] # 47

\* C29: for a url that begins with a single '/', the path used for matching
\* is the url without its fragment, '*' and '$' re-encoded, whatever the
\* path and the query contain.
C29_SlashUrlIsItsOwnPath ==
  (pc # "idle" /\ BeginsWithSingleSlash(url)) =>
    m.path_ = Reencoded(WithoutFragment(url))


\* ------------------------------------------------------------------------
\* Matches against the position-set definition
\* ------------------------------------------------------------------------

MinOf(S) == CHOOSE x \in S : \A y \in S : x <= y

\* The byte that stands at offset p (0-based) of s, a %HH escape read as
\* the octet it encodes, and the number of bytes it takes.
DecodedByte(s, p) ==
  IF EscapeAt(s, p + 1)
  THEN HexValue(s[p + 2]) * 16 + HexValue(s[p + 3])
  ELSE s[p + 1]

Advance(s, p) == IF EscapeAt(s, p + 1) THEN 3 ELSE 1

\* The position-set definition from offset k (0-based) of the pattern on,
\* with the set P of candidate offsets of the path.
RECURSIVE PositionSetFrom(_, _, _, _)
PositionSetFrom(path, pattern, k, P) ==
  IF k >= Len(pattern) THEN P # {}
  ELSE IF pattern[k + 1] = 36 /\ k + 1 = Len(pattern)
  THEN MaxOf(P) = Len(path)
  ELSE IF pattern[k + 1] = 42
  THEN PositionSetFrom(path, pattern, k + 1, MinOf(P)..Len(path))
  ELSE LET c == DecodedByte(pattern, k)
           Q == {p + Advance(path, p) :
                   p \in {q \in P : q < Len(path) /\ DecodedByte(path, q) = c}}
       IN  /\ Q # {}
           /\ PositionSetFrom(path, pattern, k + Advance(pattern, k), Q)

PositionSetMatch(path, pattern) == PositionSetFrom(path, pattern, 0, {0})

\* C25: Matches(path, pattern) is the result of the position-set definition:
\* P = {0}; a literal byte keeps the advanced positions whose decoded path
\* byte equals it; '*' makes P every position from min(P) to the end of the
\* path; a terminal '$' asks max(P) to be the end of the path.
C25_MatchesIsPositionSetMatch ==
  \A i \in 1..Len(robots_body) :
    IsRuleLine(robots_body[i]) =>
      (Matches(Path, Delivered(robots_body[i]))
         <=> PositionSetMatch(Path, Delivered(robots_body[i])))


\* ------------------------------------------------------------------------
\* Several groups of the `*` agent
\* ------------------------------------------------------------------------

StarLines ==
  {k \in 1..Len(robots_body) :
     IsAgentLine(robots_body[k]) /\ IsStarValue(robots_body[k].value)}

\* The Allow and Disallow lines of the first group with a `*` User-agent
\* line.
FirstStarGroupRules ==
  {i \in 1..Len(robots_body) :
     /\ IsRuleLine(robots_body[i])
     /\ StarLines # {}
     /\ MinOf(StarLines) \in GroupHeader(robots_body, i)}

\* C26: when no group names a queried agent, only the first group with a
\* `*` User-agent line is obeyed: the verdict is the longest-match decision
\* over the rules of that group, whatever later `*` groups hold.
C26_OnlyFirstStarGroupObeyed ==
  (Done /\ ~SomeGroupNamesAgent)
    => Verdict = ~RulesDisallow(robots_body, FirstStarGroupRules, Path)


\* ------------------------------------------------------------------------
\* User-agent lines after Sitemap and unknown lines
\* ------------------------------------------------------------------------

\* Line j of the body is a User-agent line that directly follows a Sitemap
\* or unknown line.
FollowsSitemapOrUnknown(j) ==
  /\ j >= 2
  /\ j <= Len(robots_body)
  /\ IsAgentLine(robots_body[j])
  /\ robots_body[j - 1].key \in {"SITEMAP", "UNKNOWN"}

\* The body without its line j.
WithoutLine(j) ==
  SubSeq(robots_body, 1, j - 1) \o SubSeq(robots_body, j + 1, Len(robots_body))

\* C27 as stated: a User-agent line after a Sitemap or unknown line starts a
\* fresh group.  Once the parser has read such a line, the agents it holds
\* the next rule to apply to are those of that line alone.
C27_SitemapOrUnknownClosesGroup ==
  (pc # "idle" /\ FollowsSitemapOrUnknown(Len(robots_body))) =>
    /\ m.seen_global_agent_
         = IsStarValue(robots_body[Len(robots_body)].value)
    /\ m.seen_specific_agent_
         = Admitted(robots_body, Agents, Len(robots_body))

\* C27: a User-agent line after a Sitemap or unknown line does not start a
\* fresh group.  Once the parser has read such a line, the agents it holds
\* the next rule to apply to, and whether a rule has closed the group, are
\* what they are for the body without the Sitemap or unknown line; and the
\* verdict of a query is the verdict for the body without that line.
C27_SitemapOrUnknownKeepsGroup ==
  /\ (pc # "idle" /\ FollowsSitemapOrUnknown(Len(robots_body))) =>
       LET f == FreshParse(WithoutLine(Len(robots_body) - 1))
       IN  /\ m.seen_global_agent_ = f.seen_global_agent_
           /\ m.seen_specific_agent_ = f.seen_specific_agent_
           /\ m.seen_separator_ = f.seen_separator_
  /\ Done =>
       \A j \in 1..Len(robots_body) :
         FollowsSitemapOrUnknown(j) =>
           Verdict = ~disallow(FreshParse(WithoutLine(j - 1)))

\* A finished query on a body where a Sitemap or unknown line stands between
\* the User-agent line of the queried agent and a `*` line: the Disallow
\* rule after the `*` line is stored for the queried agent and forbids the
\* URL to it.
C27_Witness ==
  /\ Done
  /\ Len(robots_body) = 4
  /\ IsAgentLine(robots_body[1])
  /\ NamesQueried(robots_body[1].value, Agents)
  /\ FollowsSitemapOrUnknown(3)
  /\ IsStarValue(robots_body[3].value)
  /\ robots_body[4].key = "DISALLOW"
  /\ m.seen_specific_agent_
  /\ m.disallow_.specific.priority > 0
  /\ Verdict = FALSE


\* ------------------------------------------------------------------------
\* Which rules get the directory fallback
\* ------------------------------------------------------------------------

EndsWith(s, suffix) ==
  /\ Len(s) >= Len(suffix)
  /\ SubSeq(s, Len(s) - Len(suffix) + 1, Len(s)) = suffix

\* The pattern ends with index.htm or index.html.
EndsWithIndexPage(pattern) ==
  \/ EndsWith(pattern, Tail(S_index_htm))
  \/ EndsWith(pattern, Tail(S_index_html))

\* The lengths of the directory patterns that match the path, for the Allow
\* rules of R that end with index.htm or index.html and do not match the
\* path themselves.
IndexPageFallbackLengths(R) ==
  {Len(DirectoryPattern(Delivered(robots_body[i]))) :
     i \in {j \in R :
              /\ robots_body[j].key = "ALLOW"
              /\ EndsWithIndexPage(Delivered(robots_body[j]))
              /\ ~Matches(Path, Delivered(robots_body[j]))
              /\ Matches(Path, DirectoryPattern(Delivered(robots_body[j])))}}

\* C28: the directory fallback is applied to an Allow rule iff its pattern
\* ends with index.htm or index.html and did not match the path; no other
\* Allow rule and no Disallow rule gets it.  So the priority stored for the
\* Allow rules of the `*` scope is the longest of their direct matches and of
\* the fallback matches of those index rules, and the priority stored for
\* its Disallow rules is the longest of their direct matches.
C28_FallbackIffEndsWithIndexPage ==
  pc # "idle" =>
    /\ m.allow_.global.priority
         = MaxOf(DirectMatchLengths(robots_body, GlobalRules(robots_body),
                                    "ALLOW", Path)
                 \cup IndexPageFallbackLengths(GlobalRules(robots_body)))
    /\ m.disallow_.global.priority
         = MaxOf(DirectMatchLengths(robots_body, GlobalRules(robots_body),
                                    "DISALLOW", Path))


\* ------------------------------------------------------------------------
\* The group a returned side-channel value comes from
\* ------------------------------------------------------------------------

\* The User-agent line k belongs to the group line i stands in: it heads
\* that group before line i, or follows line i with no Allow or Disallow
\* line from i to k.
InGroupOf(i, k) ==
  \/ k \in GroupHeader(robots_body, i)
  \/ /\ k > i
     /\ IsAgentLine(robots_body[k])
     /\ \A r \in i..k : ~IsRuleLine(robots_body[r])

\* The lines of one directive in the groups of the longest agent name
\* matched anywhere in the body: the groups whose rules decide the verdict.
LongestAgentGroupLines(key) ==
  {i \in 1..Len(robots_body) :
     /\ robots_body[i].key = key
     /\ \E k \in 1..Len(robots_body) :
          /\ InGroupOf(i, k)
          /\ NamesLongestQueried(robots_body, Agents, k)}

\* C30: for a multi-agent query, the value of the specific scope that
\* get_crawl_delay(), get_request_rate() or get_content_signal() returns is
\* one declared in a group of the longest matched agent name, whatever the
\* order of the groups in the body.
C30_SpecificValueFromLongestAgent ==
  (Done /\ Len(Agents) >= 2) =>
    \A key \in SideChannelKeys :
      (ever_seen_specific_agent(m) /\ HasValue(StoredSpecific(key))) =>
        Accessor(key)[1] \in ValuesOf(LongestAgentGroupLines(key))


\* ------------------------------------------------------------------------
\* The order of rules and of groups
\* ------------------------------------------------------------------------

\* The User-agent lines that open a group of the body: the first one, and
\* every one with an Allow or Disallow line since the User-agent line before
\* it.
GroupStarts(body) ==
  {k \in 1..Len(body) :
     /\ IsAgentLine(body[k])
     /\ \A j \in 1..(k - 1) :
          IsAgentLine(body[j]) =>
            \E r \in (j + 1)..(k - 1) : IsRuleLine(body[r])}

\* The last line of the group that opens at line k.
GroupEnd(body, k) ==
  LET later == {j \in GroupStarts(body) : j > k}
  IN  IF later = {} THEN Len(body) ELSE MinOf(later) - 1

\* The body consists of groups, each with at least one Allow or Disallow
\* line.
EveryGroupHasRule(body) ==
  /\ Len(body) > 0
  /\ IsAgentLine(body[1])
  /\ \A k \in GroupStarts(body) :
       \E r \in k..GroupEnd(body, k) : IsRuleLine(body[r])

\* The body with its lines i and j exchanged.
SwapLines(body, i, j) ==
  [n \in 1..Len(body) |->
     IF n = i THEN body[j] ELSE IF n = j THEN body[i] ELSE body[n]]

\* The Allow and Disallow lines i < j stand in one group.
RulesOfOneGroup(body, i, j) ==
  /\ i < j
  /\ IsRuleLine(body[i])
  /\ IsRuleLine(body[j])
  /\ \A n \in i..j : ~IsAgentLine(body[n])

\* The body with the group that opens at line k and the group after it
\* exchanged.
SwapGroups(body, k) ==
  LET e == GroupEnd(body, k)
  IN  SubSeq(body, 1, k - 1)
        \o SubSeq(body, e + 1, GroupEnd(body, e + 1))
        \o SubSeq(body, k, e)
        \o SubSeq(body, GroupEnd(body, e + 1) + 1, Len(body))

\* C31: the verdict does not depend on the order of the Allow and Disallow
\* lines within a group nor on the order of the groups, provided every group
\* holds at least one Allow or Disallow line: exchanging two rules of one
\* group, or two neighbouring groups, leaves the verdict as it is.
C31_VerdictIndependentOfOrder ==
  (Done /\ EveryGroupHasRule(robots_body)) =>
    /\ \A i, j \in 1..Len(robots_body) :
         RulesOfOneGroup(robots_body, i, j) =>
           Verdict = ~disallow(FreshParse(SwapLines(robots_body, i, j)))
    /\ \A k \in GroupStarts(robots_body) :
         GroupEnd(robots_body, k) < Len(robots_body) =>
           Verdict = ~disallow(FreshParse(SwapGroups(robots_body, k)))

\* A finished multi-agent query on a body of two groups, the first for the
\* shorter agent name with a rule that forbids the URL, the second for the
\* longer one with a rule that allows it: the URL is allowed in this order
\* and in the other.
C31_Witness ==
  /\ Done
  /\ Len(Agents) >= 2
  /\ Len(robots_body) = 4
  /\ GroupStarts(robots_body) = {1, 3}
  /\ EveryGroupHasRule(robots_body)
  /\ NamesQueried(robots_body[1].value, Agents)
  /\ NamesLongestQueried(robots_body, Agents, 3)
  /\ ~NamesLongestQueried(robots_body, Agents, 1)
  /\ robots_body[2].key = "DISALLOW"
  /\ Matches(Path, Delivered(robots_body[2]))
  /\ robots_body[4].key = "ALLOW"
  /\ Matches(Path, Delivered(robots_body[4]))
  /\ Len(Delivered(robots_body[4])) < Len(Delivered(robots_body[2]))
  /\ Verdict = TRUE
  /\ disallow(FreshParse(SubSeq(robots_body, 1, 2)))


\* ------------------------------------------------------------------------
\* Priority monotonicity
\* ------------------------------------------------------------------------

\* The step is the parse of one more line of the body.
LineParsed ==
  /\ pc = "parsing"
  /\ pc' = "parsing"
  /\ Len(robots_body') = Len(robots_body) + 1

\* The stored match is kept, or replaced by one of strictly greater
\* priority with the line just parsed.
KeptOrRaised(old, new) ==
  \/ new = old
  \/ /\ new.priority > old.priority
     /\ new.line = Len(robots_body')

\* The specific scope is cleared by a more specific agent.
SpecificCleared ==
  /\ m'.best_specific_agent_length_ > m.best_specific_agent_length_
  /\ m'.allow_.specific = NoMatch
  /\ m'.disallow_.specific = NoMatch

\* C32: within one parse and one scope a stored Allow or Disallow match is
\* replaced only by a match of strictly greater priority; the priority
\* never decreases except when a more specific agent clears the specific
\* scope, and of matches of equal priority the line of the earliest is
\* kept.
C32_PriorityMonotonicity ==
  [][LineParsed =>
       /\ KeptOrRaised(m.allow_.global, m'.allow_.global)
       /\ KeptOrRaised(m.disallow_.global, m'.disallow_.global)
       /\ \/ SpecificCleared
          \/ /\ KeptOrRaised(m.allow_.specific, m'.allow_.specific)
             /\ KeptOrRaised(m.disallow_.specific, m'.disallow_.specific)]_vars

\* A parse in which a Disallow match of the `*` scope was replaced by a
\* longer one on line 3 and a further match of the same priority on line 4
\* left it as it was.
C32_Witness ==
  /\ pc = "parsing"
  /\ Len(robots_body) = 4
  /\ IsStarValue(robots_body[1].value)
  /\ \A i \in 2..4 :
       /\ robots_body[i].key = "DISALLOW"
       /\ Matches(Path, Delivered(robots_body[i]))
  /\ Len(Delivered(robots_body[2])) < Len(Delivered(robots_body[3]))
  /\ Len(Delivered(robots_body[4])) = Len(Delivered(robots_body[3]))
  /\ m.disallow_.global = Match(Len(Delivered(robots_body[3])), 3)


\* ------------------------------------------------------------------------
\* best_specific_agent_length_
\* ------------------------------------------------------------------------

\* C33: during a parse best_specific_agent_length_ never decreases (a query
\* starts it at 0), and at every step at which it increases the specific
\* Allow and Disallow matches collected so far are cleared, to priority -1
\* and line 0, before a rule of the new agent is recorded.
C33_BestLengthGrowsAndClears ==
  [][/\ (pc' = "parsing" /\ pc # "parsing") =>
          m'.best_specific_agent_length_ = 0
     /\ LineParsed =>
          /\ m'.best_specific_agent_length_ >= m.best_specific_agent_length_
          /\ m'.best_specific_agent_length_ > m.best_specific_agent_length_ =>
               /\ m'.allow_.specific = Match(-1, 0)
               /\ m'.disallow_.specific = Match(-1, 0)]_vars

\* A parse of a multi-agent query that has stored a Disallow match for the
\* shorter agent name and has then read the User-agent line of the longer
\* one: the length is that of the longer name and the match is gone.
C33_Witness ==
  /\ pc = "parsing"
  /\ Len(Agents) >= 2
  /\ Len(robots_body) = 3
  /\ IsAgentLine(robots_body[3])
  /\ FreshParse(SubSeq(robots_body, 1, 2)).best_specific_agent_length_ = 1
  /\ FreshParse(SubSeq(robots_body, 1, 2)).disallow_.specific.priority > 0
  /\ m.best_specific_agent_length_ = 2
  /\ m.disallow_.specific = NoMatch


\* ------------------------------------------------------------------------
\* matching_line() of a disallowed URL
\* ------------------------------------------------------------------------

\* The Disallow lines of the deciding scope whose pattern matches the path.
DecidingDisallowMatches ==
  {i \in DecidingRules(robots_body, Agents) :
     /\ robots_body[i].key = "DISALLOW"
     /\ Matches(Path, Delivered(robots_body[i]))}

\* C34: whenever the verdict is "disallowed", matching_line() is not 0 and
\* is the number of a Disallow line of the body that belongs to the deciding
\* scope and whose pattern matches the path.
C34_DisallowedReportsDisallowLine ==
  (Done /\ Verdict = FALSE) =>
    /\ matching_line(m) # 0
    /\ matching_line(m) \in DecidingDisallowMatches

\* A finished query for an agent with a group of its own, disallowed by a
\* rule of that group although a shorter Allow rule of the group, on a
\* later line, matches the path too.
C34_Witness ==
  /\ Done
  /\ Verdict = FALSE
  /\ ever_seen_specific_agent(m)
  /\ \E i \in MatchingRules(DecidingRules(robots_body, Agents), "ALLOW") :
       i > matching_line(m)
  /\ matching_line(m) \in DecidingDisallowMatches


\* ------------------------------------------------------------------------
\* The empty agent
\* ------------------------------------------------------------------------

\* C35: a queried agent that is the empty string matches no named group,
\* whatever the User-agent values of the body: no specific group is seen and
\* the verdict is the longest-match decision over the rules of the `*`
\* groups, as for an agent named nowhere in the body.
C35_EmptyAgentMatchesNoNamedGroup ==
  (Done /\ Agents = <<S_empty>>) =>
    /\ ~ever_seen_specific_agent(m)
    /\ Verdict = ~RulesDisallow(robots_body, GlobalRules(robots_body), Path)


\* ------------------------------------------------------------------------
\* Empty patterns
\* ------------------------------------------------------------------------

\* The Disallow priority stored for the scope that decides the verdict.
DecidingDisallowPriority ==
  IF ever_seen_specific_agent(m)
  THEN m.disallow_.specific.priority ELSE m.disallow_.global.priority

\* Every Disallow rule of the deciding scope that matches the path has an
\* empty pattern.
OnlyEmptyDisallowMatches ==
  \A i \in DecidingDisallowMatches : Delivered(robots_body[i]) = <<>>

\* C36: a rule with an empty pattern matches every path at priority 0 and
\* never produces a disallow verdict: when every Disallow rule of the
\* deciding scope that matches the path has an empty pattern, the stored
\* Disallow priority is at most 0 and the URL is allowed.
C36_EmptyPatternNeverDisallows ==
  /\ pc # "idle" =>
       /\ Matches(Path, <<>>)
       /\ MatchAllow(Path, <<>>) = 0
       /\ MatchDisallow(Path, <<>>) = 0
  /\ (Done /\ OnlyEmptyDisallowMatches) =>
       /\ DecidingDisallowPriority
            = (IF DecidingDisallowMatches = {} THEN -1 ELSE 0)
       /\ Verdict = TRUE

\* A finished query whose deciding scope holds an empty Disallow rule, on
\* the line matching_line() reports, no Allow rule, and a Disallow rule
\* that does not match the path: the URL is allowed.
C36_Witness ==
  /\ Done
  /\ DecidingDisallowMatches # {}
  /\ OnlyEmptyDisallowMatches
  /\ \E i \in DecidingRules(robots_body, Agents) :
       /\ robots_body[i].key = "DISALLOW"
       /\ ~Matches(Path, Delivered(robots_body[i]))
  /\ \A i \in DecidingRules(robots_body, Agents) :
       robots_body[i].key = "DISALLOW"
  /\ DecidingDisallowPriority = 0
  /\ Verdict = TRUE


\* ------------------------------------------------------------------------
\* Bounds of the candidate positions
\* ------------------------------------------------------------------------

\* The loop states of Matches for the path of the query and the pattern of
\* rule line i.
TraceOfLine(i) == MatchesTrace(Path, Delivered(robots_body[i]), 0, <<0>>)

RuleLines == {i \in 1..Len(robots_body) : IsRuleLine(robots_body[i])}

\* The loop state e reads pattern, path and pos[] inside their bounds.
ReadsInBounds(path, pattern, e) ==
  /\ e.pat_idx < Len(pattern) =>
       DecodeReads(pattern, e.pat_idx) \subseteq 0..(Len(pattern) - 1)
  /\ \A k \in 1..Len(e.pos) :
       e.pos[k] < Len(path) =>
         DecodeReads(path, e.pos[k]) \subseteq 0..(Len(path) - 1)
  /\ Len(e.pos) >= 1

\* C37: for the path of the query and the pattern of every rule line, every
\* stored candidate position is at most len(path), at most len(path) + 1
\* positions are stored, pat_idx never passes the end of the pattern, and
\* every read of path, pattern and pos[] is inside its bounds.
C37_PositionsStayInBounds ==
  \A i \in RuleLines :
    LET path    == Path
        pattern == Delivered(robots_body[i])
        trace   == MatchesTrace(path, pattern, 0, <<0>>)
    IN  \A n \in 1..Len(trace) :
          LET e == trace[n]
          IN  /\ \A k \in 1..Len(e.pos) : e.pos[k] \in 0..Len(path)
              /\ Len(e.pos) <= Len(path) + 1
              /\ e.pat_idx \in 0..Len(pattern)
              /\ ReadsInBounds(path, pattern, e)

\* A rule line whose pattern begins with '*', so that len(path) + 1
\* positions are stored and the last one is len(path), on a path that ends
\* with an escape that is decoded and a path that ends with a cut escape.
C37_Witness ==
  /\ Path \in {S_slash_pct33, S_slash_pct3}
  /\ \E i \in RuleLines :
       \E n \in 1..Len(TraceOfLine(i)) :
         LET e == TraceOfLine(i)[n]
         IN  /\ Len(e.pos) = Len(Path) + 1
             /\ e.pos[Len(e.pos)] = Len(Path)
  /\ \E i \in RuleLines :
       \E n \in 1..Len(TraceOfLine(i)) :
         LET e == TraceOfLine(i)[n]
         IN  \E k \in 1..Len(e.pos) :
               /\ e.pos[k] < Len(Path)
               /\ At(Path, e.pos[k]) = 37
               /\ e.pat_idx < Len(Delivered(robots_body[i]))


\* ------------------------------------------------------------------------
\* Order of the candidate positions
\* ------------------------------------------------------------------------

StrictlyAscending(pos) ==
  \A k \in 1..(Len(pos) - 1) : pos[k] < pos[k + 1]

\* C39: at the start and at the end of every iteration of the loop of
\* Matches, for the path of the query and the pattern of every rule line,
\* pos[] is strictly ascending without duplicates, so that its first element
\* is its minimum and its last element its maximum.
C39_PositionsStrictlyAscending ==
  \A i \in RuleLines :
    LET trace == TraceOfLine(i)
    IN  \A n \in 1..Len(trace) :
          /\ StrictlyAscending(trace[n].pos)
          /\ trace[n].pos[1] = MinOf({trace[n].pos[k] : k \in 1..Len(trace[n].pos)})
          /\ trace[n].pos[Len(trace[n].pos)]
               = MaxOf({trace[n].pos[k] : k \in 1..Len(trace[n].pos)})


\* ------------------------------------------------------------------------
\* Two instances
\* ------------------------------------------------------------------------

\* The matcher a query for `agents` and url u on body `body` leaves when it
\* is the only query the process runs.
Alone(agents, u, body) ==
  ParseLines(HandleRobotsStart(
               InitUserAgentsAndPath(NewMatcher, agents,
                                     GetPathParamsQuery(u))),
             body, 1)

\* What the accessors of a matcher return.
AccessorValues(mm) ==
  [matching_line            |-> matching_line(mm),
   ever_seen_specific_agent |-> ever_seen_specific_agent(mm),
   crawl_delay              |-> GetCrawlDelay(mm),
   request_rate             |-> GetRequestRate(mm),
   content_signal           |-> GetContentSignal(mm)]

\* C38: under every interleaving of the queries of two matcher instances,
\* each instance holds, after every line and when its query has returned,
\* the state that query has when it runs alone, and so returns the same
\* verdict and the same accessor values.
C38_InstancesShareNoState ==
  /\ pc \in {"parsing", "done"} =>
       /\ m = Alone(Agents, url, robots_body)
       /\ AccessorValues(m) = AccessorValues(Alone(Agents, url, robots_body))
       /\ Done => Verdict = ~disallow(Alone(Agents, url, robots_body))
  /\ other.pc \in {"parsing", "done"} =>
       LET alone == Alone(other.m.user_agents_, other.url, other.robots_body)
       IN  /\ other.m = alone
           /\ AccessorValues(other.m) = AccessorValues(alone)
           /\ other.pc = "done" => other.allowed[1] = ~disallow(alone)

\* Both instances are inside a query on different bodies, each has parsed a
\* line, and they hold different verdict state: the first has admitted the
\* agent and stored a Disallow match, the second has only seen the `*` group
\* and stored a crawl delay.
C38_Witness ==
  /\ pc = "parsing" /\ other.pc = "parsing"
  /\ Len(robots_body) = 2 /\ Len(other.robots_body) = 2
  /\ robots_body # other.robots_body
  /\ m.best_specific_agent_length_ = 1
  /\ m.disallow_.specific.priority = 1
  /\ other.m.best_specific_agent_length_ = 0
  /\ HasValue(other.m.crawl_delay_global_)
  /\ reused

====
